---------------------------- MODULE Spec2Model ----------------------------
(***************************************************************************)
(* State-machine model of the barcode core of creo-barcode-plugin:         *)
(*   - BarcodeGenerator (special-character codec, validateData, generate)  *)
(*   - barcode_generate_pure_c (dependency-free Code 128 / BMP path)       *)
(*   - BatchProcessor                                                      *)
(*   - CreoComBridge batch insertion and calculateGridPosition             *)
(*   - the C API wrappers barcode_batch_insert_images[_grid]               *)
(*                                                                         *)
(* Strings are sequences of byte values 0..255.  Each component has its    *)
(* own specification (SpecCodec, SpecGen, ...) over the shared variables;  *)
(* the variables of the components a specification does not exercise keep  *)
(* their initial values.                                                   *)
(***************************************************************************)
EXTENDS Integers, Sequences, FiniteSets, TLC

VARIABLES
    \* --- special-character codec (BarcodeGenerator::encode/decodeSpecialChars)
    codecPhase,     \* "input" | "encoded" | "roundtrip" | "decodedraw" | "idle"
    codecInput,     \* the caller's byte string
    encoded,        \* return value of encodeSpecialChars(codecInput)
    decoded,        \* return value of the last decodeSpecialChars call
    decodeLog,      \* iterations of the decode loop: [pos, emit, adv]
    \* --- BarcodeGenerator::generate
    lastError_,     \* BarcodeGenerator::lastError_ : [code, message]
    genArgs,        \* arguments of the generate call: [data, type, width, height]
    genRet,         \* "none" | "true" | "false": generate's return when last called
    writerMatrix,   \* size of the matrix the barcode writer returned to that call
    outFile,        \* the image file at outputPath: [exists, width, height, pixels]
    lastCall,       \* "none" | "generate" | "decode" | "getImageSize": the last call made
    decodeRet,      \* what decode returned when it was the last call: [has, text]
    sizeRet,        \* "none" | "true" | "false": getImageSize's return when last called
    pixelBuf,       \* buffer of the last call's stbi_load: [loaded, frees]
    readerResult,   \* what ZXing::ReadBarcode did in the last call: [kind, text]
    everFailed,     \* a generate or decode call on the instance has failed
    \* --- BarcodeGenerator::validateData
    valPhase,       \* "args" | "returned" | "idle"
    valArgs,        \* [data, type]
    valRet,         \* return value
    \* --- BatchProcessor::getSummary
    sumPhase,       \* "args" | "returned" | "idle"
    sumArgs,        \* the vector<BatchResult> handed to getSummary
    summary,        \* the text returned, as its sequence of lines
    \* --- barcode_generate_pure_c
    pcPhase,        \* "args" | "returned" | "idle"
    pcArgs,         \* [dataNull, data, pathNull, width, height, margin]
    pcRet,          \* return value of barcode_generate_pure_c
    pcDraw,         \* what was drawn into the pixel buffer
    bmp,            \* the BMP file written: [exists, biWidth, biHeight, biSizeImage]
    \* --- BatchProcessor
    fileQueue_,     \* BatchProcessor::fileQueue_
    procCalled,     \* TRUE when the last call on the processor was process
    procQueue,      \* fileQueue_ as it was when that process call was made
    procCallback,   \* whether that call was given a progress callback
    procOpens,      \* per item, whether std::ifstream found the file good
    results,        \* the vector<BatchResult> the call returned
    progressLog,    \* the (current, total) pairs the callback received
    batchCall,      \* the last call on the processor: [op, paths]
    addedSinceClear,\* how many paths were added since the last clear()
    \* --- calculateGridPosition
    gridPhase,      \* "args" | "returned" | "idle"
    gridArgs,       \* [index, columns, spacing, startX, startY, width, height]
    gridPos,        \* the GridPosition returned: [x, y]
    \* --- DataSyncChecker
    defaultUpdateCallback_, \* DataSyncChecker::defaultUpdateCallback_
    syncCall,       \* the last call on the checker: "none" | "set" | "checkSync" | "promptUpdate"
    syncArgs,       \* the arguments of that call
    syncResult,     \* the SyncCheckResult checkSync returned
    promptRet,      \* promptUpdate's return: "none" | "true" | "false"
    callbackLog,    \* the callback invocations made by that call
    \* --- C API: barcode_init / barcode_cleanup / barcode_generate / barcode_decode / barcode_get_image_size
    g_generator,    \* the BarcodeGenerator g_generator owns (NoInstance when null)
    g_configManager, \* the ConfigManager g_configManager owns
    g_syncChecker,  \* the DataSyncChecker g_syncChecker owns
    g_lastError,    \* g_lastError
    constructed,    \* how many component objects have been constructed so far
    apiCall,        \* the last C API call: [op, valid, newThrows]
    apiRet,         \* its return value
    initOrGenerate, \* barcode_init or an argument-valid barcode_generate was called since the last barcode_cleanup
    \* --- ConfigManager::deserialize
    config_,        \* ConfigManager::config_
    cfgLastError_,  \* ConfigManager::lastError_
    cfgPhase,       \* "args" | "returned" | "idle"
    jsonStr,        \* the text handed to deserialize: [parsable, fields]
    configBefore,   \* config_ as it was when deserialize was called
    cfgRet,         \* deserialize's return: "none" | "true" | "false"
    \* --- CreoComBridge
    m_initialized,  \* CreoComBridge::m_initialized
    m_lastError,    \* CreoComBridge::m_lastError
    hostImages,     \* images created in the host drawing: [path, x, y, width, height]
    comPhase,       \* "args" | the batch call that returned | "idle"
    comArgs,        \* [paths, width, height, columns, spacing, startX, startY]
    comOutcomes,    \* per item, what the file system and the host did
    comResult,      \* the BatchInsertResult returned
    \* --- C API: barcode_batch_insert_images / barcode_batch_insert_images_grid
    capiPhase,      \* "args" | the C function that returned | "idle"
    capiArgs,       \* [pathsNull, paths, positionsNull, count, resultNull, columns]
    capiRet,        \* return value
    capiResult,     \* *result: [set, totalCount, successCount, failCount]
    g_comBridgeLastError

codecVars == <<codecPhase, codecInput, encoded, decoded, decodeLog>>

genVars == <<lastError_, genArgs, genRet, writerMatrix, outFile, lastCall, decodeRet,
            sizeRet, pixelBuf, readerResult, everFailed>>

pureCVars == <<pcPhase, pcArgs, pcRet, pcDraw, bmp>>

batchVars == <<fileQueue_, procCalled, procQueue, procCallback, procOpens, results,
               progressLog, batchCall, addedSinceClear>>

gridVars == <<gridPhase, gridArgs, gridPos>>

comVars == <<m_initialized, m_lastError, hostImages, comPhase, comArgs, comOutcomes,
             comResult>>

capiVars == <<capiPhase, capiArgs, capiRet, capiResult, g_comBridgeLastError>>

valVars == <<valPhase, valArgs, valRet>>

sumVars == <<sumPhase, sumArgs, summary>>

syncVars == <<defaultUpdateCallback_, syncCall, syncArgs, syncResult, promptRet, callbackLog>>

lifeVars == <<g_generator, g_configManager, g_syncChecker, g_lastError, constructed, apiCall, apiRet, initOrGenerate>>

cfgVars == <<config_, cfgLastError_, cfgPhase, jsonStr, configBefore, cfgRet>>

vars ==
    <<codecVars, genVars, pureCVars, batchVars, gridVars, comVars, capiVars,
      valVars, sumVars, syncVars, lifeVars, cfgVars>>

\* what the actions of one component leave alone
notCodec ==
    <<genVars, pureCVars, batchVars, gridVars, comVars, capiVars, valVars,
      sumVars, syncVars, lifeVars, cfgVars>>
notGen ==
    <<codecVars, pureCVars, batchVars, gridVars, comVars, capiVars, valVars,
      sumVars, syncVars, lifeVars, cfgVars>>
notPureC ==
    <<codecVars, genVars, batchVars, gridVars, comVars, capiVars, valVars,
      sumVars, syncVars, lifeVars, cfgVars>>
notBatch ==
    <<codecVars, genVars, pureCVars, gridVars, comVars, capiVars, valVars,
      sumVars, syncVars, lifeVars, cfgVars>>
notGrid ==
    <<codecVars, genVars, pureCVars, batchVars, comVars, capiVars, valVars,
      sumVars, syncVars, lifeVars, cfgVars>>
notCom ==
    <<codecVars, genVars, pureCVars, batchVars, gridVars, capiVars, valVars,
      sumVars, syncVars, lifeVars, cfgVars>>
notVal ==
    <<codecVars, genVars, pureCVars, batchVars, gridVars, comVars, capiVars,
      sumVars, syncVars, lifeVars, cfgVars>>
notSum ==
    <<codecVars, genVars, pureCVars, batchVars, gridVars, comVars, capiVars,
      valVars, syncVars, lifeVars, cfgVars>>
notSync ==
    <<codecVars, genVars, pureCVars, batchVars, gridVars, comVars, capiVars,
      valVars, sumVars, lifeVars, cfgVars>>
notLife ==
    <<codecVars, genVars, pureCVars, batchVars, gridVars, comVars, capiVars,
      valVars, sumVars, syncVars, cfgVars>>
notCfg ==
    <<codecVars, genVars, pureCVars, batchVars, gridVars, comVars, capiVars,
      valVars, sumVars, syncVars, lifeVars>>
notCapi ==
    <<codecVars, genVars, pureCVars, batchVars, gridVars, valVars, sumVars,
      syncVars, lifeVars, cfgVars>>

-----------------------------------------------------------------------------
(* Bounds *)

\* longest byte string handed to the codec
MaxLen == 4

\* largest image / module-matrix dimension in the generate model
MaxDim == 3

\* longest accepted payload handed to barcode_generate_pure_c
MaxDataLen == 2

\* longest BatchProcessor queue
MaxQueue == 3

\* longest of the short strings handed to validateData
MaxValLen == 2

\* largest index handed to calculateGridPosition
MaxIndex == 5

\* most images in one batch insertion
MaxBatch == 3

\* longest part name / barcode text handed to the DataSyncChecker
MaxNameLen == 1

\* how many component objects the C API may construct in one run
MaxInstances == 6

-----------------------------------------------------------------------------
(* Generic helpers *)

RECURSIVE SeqsUpTo(_, _)
SeqsUpTo(S, n) ==
    IF n = 0 THEN {<<>>}
    ELSE LET shorter == SeqsUpTo(S, n - 1)
         IN  shorter \cup {Append(s, x) : s \in {t \in shorter : Len(t) = n - 1}, x \in S}

-----------------------------------------------------------------------------
(* Special-character codec *)

\* Byte values the codec is exercised with: NUL, TAB (control, whitespace),
\* '-', '1', backslash, 'g', 'x', '~', DEL, 0xFF.
CodecBytes == {0, 9, 45, 49, 92, 103, 120, 126, 127, 255}

BACKSLASH == 92
LOWER_X == 120

\* std::hex digit of a nibble (lowercase)
HexDigit(n) == IF n < 10 THEN 48 + n ELSE 87 + n

\* mutant: DEL (127) is let through unescaped
EncodeByte_DelUnescaped(c) ==
    IF c < 32 \/ c > 127
    THEN <<BACKSLASH, LOWER_X, HexDigit(c \div 16), HexDigit(c % 16)>>
    ELSE IF c = BACKSLASH THEN <<BACKSLASH, BACKSLASH>> ELSE <<c>>

\* mutant: the backslash is not doubled
EncodeByte_NoBackslashEscape(c) ==
    IF c < 32 \/ c > 126
    THEN <<BACKSLASH, LOWER_X, HexDigit(c \div 16), HexDigit(c % 16)>>
    ELSE <<c>>

\* one iteration of the loop of encodeSpecialChars
EncodeByte(c) ==
    IF c < 32 \/ c > 126
    THEN <<BACKSLASH, LOWER_X, HexDigit(c \div 16), HexDigit(c % 16)>>
    ELSE IF c = BACKSLASH THEN <<BACKSLASH, BACKSLASH>> ELSE <<c>>

RECURSIVE encodeSpecialChars(_)
encodeSpecialChars(input) ==
    IF input = <<>> THEN <<>>
    ELSE EncodeByte(Head(input)) \o encodeSpecialChars(Tail(input))

\* value of a hexadecimal digit character, -1 if it is none
HexVal(c) ==
    IF c \in 48..57 THEN c - 48
    ELSE IF c \in 97..102 THEN c - 87
    ELSE IF c \in 65..70 THEN c - 55
    ELSE -1

IsHex(c) == HexVal(c) >= 0

\* isspace() in the "C" locale
IsSpace(c) == c \in {9, 10, 11, 12, 13, 32}

\* std::stoi(hexStr, nullptr, 16) on the two-character string <<a, b>>:
\* leading whitespace is skipped, one sign is accepted, then the longest
\* run of hex digits is converted; no digit at all throws.
Stoi16(a, b) ==
    IF IsHex(a)
    THEN [ok |-> TRUE, value |-> IF IsHex(b) THEN 16 * HexVal(a) + HexVal(b) ELSE HexVal(a)]
    ELSE IF IsSpace(a) /\ IsHex(b) THEN [ok |-> TRUE, value |-> HexVal(b)]
    ELSE IF a = 43 /\ IsHex(b) THEN [ok |-> TRUE, value |-> HexVal(b)]
    ELSE IF a = 45 /\ IsHex(b) THEN [ok |-> TRUE, value |-> 0 - HexVal(b)]
    ELSE [ok |-> FALSE, value |-> 0]

\* static_cast<char>(value), read back as an unsigned byte
ToByte(v) == v % 256

\* one iteration of the while loop of decodeSpecialChars at 1-based position i
DecodeStep(s, i) ==
    IF s[i] = BACKSLASH /\ i + 1 <= Len(s)
    THEN IF s[i + 1] = BACKSLASH
         THEN [pos |-> i, emit |-> BACKSLASH, adv |-> 2]
         ELSE IF s[i + 1] = LOWER_X /\ i + 3 <= Len(s)
              THEN LET r == Stoi16(s[i + 2], s[i + 3])
                   IN  IF r.ok
                       THEN [pos |-> i, emit |-> ToByte(r.value), adv |-> 4]
                       ELSE [pos |-> i, emit |-> s[i], adv |-> 1]
              ELSE [pos |-> i, emit |-> s[i], adv |-> 1]
    ELSE [pos |-> i, emit |-> s[i], adv |-> 1]

\* the iterations the loop makes from position i to the end of s
RECURSIVE DecodeLoop(_, _)
DecodeLoop(s, i) ==
    IF i > Len(s) THEN <<>>
    ELSE LET st == DecodeStep(s, i)
         IN  <<st>> \o DecodeLoop(s, i + st.adv)

decodeSpecialChars(input) ==
    LET log == DecodeLoop(input, 1)
    IN  [k \in 1..Len(log) |-> log[k].emit]

CodecIdle ==
    /\ codecPhase = "idle"
    /\ codecInput = <<>>
    /\ encoded = <<>>
    /\ decoded = <<>>
    /\ decodeLog = <<>>

CodecInit ==
    /\ codecPhase = "input"
    /\ codecInput \in SeqsUpTo(CodecBytes, MaxLen)
    /\ encoded = <<>>
    /\ decoded = <<>>
    /\ decodeLog = <<>>

\* encoded = generator.encodeSpecialChars(codecInput)
EncodeSpecialChars ==
    /\ codecPhase = "input"
    /\ encoded' = encodeSpecialChars(codecInput)
    /\ codecPhase' = "encoded"
    /\ UNCHANGED <<codecInput, decoded, decodeLog, notCodec>>

\* decoded = generator.decodeSpecialChars(encoded)
DecodeEncoded ==
    /\ codecPhase = "encoded"
    /\ decoded' = decodeSpecialChars(encoded)
    /\ decodeLog' = DecodeLoop(encoded, 1)
    /\ codecPhase' = "roundtrip"
    /\ UNCHANGED <<codecInput, encoded, notCodec>>

\* decoded = generator.decodeSpecialChars(codecInput), on text that no
\* encodeSpecialChars call produced
DecodeRaw ==
    /\ codecPhase = "input"
    /\ decoded' = decodeSpecialChars(codecInput)
    /\ decodeLog' = DecodeLoop(codecInput, 1)
    /\ codecPhase' = "decodedraw"
    /\ UNCHANGED <<codecInput, encoded, notCodec>>

-----------------------------------------------------------------------------
(* BarcodeGenerator::validateData and BarcodeGenerator::generate *)

BarcodeType == {"CODE_128", "CODE_39", "QR_CODE", "DATA_MATRIX", "EAN_13"}

IsDigit(c) == c \in 48..57
IsUpperAlpha(c) == c \in 65..90
IsLowerAlpha(c) == c \in 97..122
\* std::toupper in the "C" locale
ToUpper(c) == IF IsLowerAlpha(c) THEN c - 32 ELSE c
IsAlnum(c) == IsDigit(c) \/ IsUpperAlpha(c) \/ IsLowerAlpha(c)

\* ' ', '-', '.', '$', '/', '+', '%'
Code39Specials == {32, 45, 46, 36, 47, 43, 37}

\* mutant: the lower-case test of the CODE_39 loop is missing
Code39Rejects_LowerOk(c) ==
    ~IsAlnum(ToUpper(c)) /\ c \notin Code39Specials

\* the body of the CODE_39 loop: TRUE when character c makes validateData return false
Code39Rejects(c) ==
    \/ ~IsAlnum(ToUpper(c)) /\ c \notin Code39Specials
    \/ IsLowerAlpha(c)

\* mutant: the empty string is not rejected up front
validateData_NoEmptyCheck(data, type) ==
    CASE type = "CODE_39" -> \A k \in 1..Len(data) : ~Code39Rejects(data[k])
      [] type = "EAN_13"  -> /\ Len(data) \in {12, 13}
                             /\ \A k \in 1..Len(data) : IsDigit(data[k])
      [] type \in {"CODE_128", "QR_CODE", "DATA_MATRIX"} -> TRUE
      [] OTHER -> FALSE

\* mutant: EAN_13 data of any length passes when all characters are digits
validateData_EanNoLength(data, type) ==
    IF data = <<>> THEN FALSE
    ELSE CASE type = "CODE_39" -> \A k \in 1..Len(data) : ~Code39Rejects(data[k])
           [] type = "EAN_13"  -> \A k \in 1..Len(data) : IsDigit(data[k])
           [] type \in {"CODE_128", "QR_CODE", "DATA_MATRIX"} -> TRUE
           [] OTHER -> FALSE

validateData(data, type) ==
    IF data = <<>> THEN FALSE
    ELSE CASE type = "CODE_39" -> \A k \in 1..Len(data) : ~Code39Rejects(data[k])
           [] type = "EAN_13"  -> /\ Len(data) \in {12, 13}
                                  /\ \A k \in 1..Len(data) : IsDigit(data[k])
           [] type \in {"CODE_128", "QR_CODE", "DATA_MATRIX"} -> TRUE
           [] OTHER -> FALSE

\* bytes handed to validateData: NUL, LF, the CODE_39 specials, digits and
\* letters with the characters next to their ranges, '@' and a byte above 127
ValBytes == {0, 10, 32, 36, 37, 43, 45, 46, 47, 48, 57, 58, 64, 65, 90, 91, 96, 97, 122,
             123, 200}

\* strings of 11 to 14 digits, optionally with one character replaced by
\* 'A', '/', ':' or a space
EanData ==
    { [k \in 1..len |-> IF k = pos THEN c ELSE 48 + (k % 10)] :
          len \in 11..14, pos \in 0..14, c \in {65, 47, 58, 32} }

ValIdle ==
    /\ valPhase = "idle"
    /\ valArgs = [data |-> <<>>, type |-> "CODE_128"]
    /\ valRet = FALSE

ValInit ==
    /\ valPhase = "args"
    /\ valArgs \in [data : SeqsUpTo(ValBytes, MaxValLen) \cup EanData, type : BarcodeType]
    /\ valRet = FALSE

\* ok = generator.validateData(data, type)
ValidateData ==
    /\ valPhase = "args"
    /\ valRet' = validateData(valArgs.data, valArgs.type)
    /\ valPhase' = "returned"
    /\ UNCHANGED <<valArgs, notVal>>

ErrorInfo(code, message) == [code |-> code, message |-> message]
NoError == ErrorInfo("SUCCESS", "")

\* The module matrix returned by the external barcode writer.  Its size is the
\* writer's choice; its content is taken to be a checkerboard so that both
\* axes of the rescaling are observable.
MatrixGet(x, y) == (x + y) % 2 = 0

\* pixels[y * matrixWidth + x] = matrix.get(x, y) ? 0 : 255   (0-based x, y)
MatrixPixels(matrixWidth, matrixHeight) ==
    [i \in 1..(matrixWidth * matrixHeight) |->
        IF MatrixGet((i - 1) % matrixWidth, (i - 1) \div matrixWidth) THEN 0 ELSE 255]

\* scaleImage: nearest neighbour.  srcX = (int)(x * (srcWidth / dstWidth)) is
\* computed over the exact quotient; double rounding does not change the
\* truncated value for the sizes the model uses.
scaleImage(src, srcWidth, srcHeight, dstWidth, dstHeight) ==
    [i \in 1..(dstWidth * dstHeight) |->
        LET x == (i - 1) % dstWidth
            y == (i - 1) \div dstWidth
            srcX == (x * srcWidth) \div dstWidth
            srcY == (y * srcHeight) \div dstHeight
        IN  src[srcY * srcWidth + srcX + 1]]

\* mutant: the matrix is written as the writer returned it, without rescaling
FinalImage_NoRescale(pixels, matrixWidth, matrixHeight, cfgWidth, cfgHeight) ==
    [exists |-> TRUE, width |-> matrixWidth, height |-> matrixHeight, pixels |-> pixels]

\* finalPixels / finalWidth / finalHeight as handed to stbi_write_png
FinalImage(pixels, matrixWidth, matrixHeight, cfgWidth, cfgHeight) ==
    [exists |-> TRUE,
     width  |-> cfgWidth,
     height |-> cfgHeight,
     pixels |-> IF matrixWidth # cfgWidth \/ matrixHeight # cfgHeight
                THEN scaleImage(pixels, matrixWidth, matrixHeight, cfgWidth, cfgHeight)
                ELSE pixels]

NoFile == [exists |-> FALSE, width |-> 0, height |-> 0, pixels |-> <<>>]
NoMatrix == [width |-> 0, height |-> 0]

\* std::nullopt, and the optional holding a text
NoText == [has |-> FALSE, text |-> ""]
SomeText(text) == [has |-> TRUE, text |-> text]

\* no stbi_load made
NoBuf == [loaded |-> FALSE, frees |-> 0]

\* ZXing::ReadBarcode not called
NoReader == [kind |-> "none", text |-> ""]

\* payloads: empty, "A", "a", twelve digits
Digits12 == <<49, 50, 51, 52, 53, 54, 55, 56, 57, 48, 49, 50>>
GenData == {<<>>, <<65>>, <<97>>, Digits12}

GenIdle ==
    /\ lastError_ = NoError
    /\ genArgs = [data |-> <<>>, type |-> "CODE_128", width |-> 0, height |-> 0]
    /\ genRet = "none"
    /\ writerMatrix = NoMatrix
    /\ outFile = NoFile
    /\ lastCall = "none"
    /\ decodeRet = NoText
    /\ sizeRet = "none"
    /\ pixelBuf = NoBuf
    /\ readerResult = NoReader
    /\ everFailed = FALSE

\* a freshly constructed generator and the arguments of the calls made on it
GenInit ==
    /\ lastError_ = NoError
    /\ genArgs \in [data : GenData, type : BarcodeType,
                    width : -1..MaxDim, height : -1..MaxDim]
    /\ genRet = "none"
    /\ writerMatrix = NoMatrix
    /\ outFile = NoFile
    /\ lastCall = "none"
    /\ decodeRet = NoText
    /\ sizeRet = "none"
    /\ pixelBuf = NoBuf
    /\ readerResult = NoReader
    /\ everFailed = FALSE

GenFail(code, message) ==
    /\ lastError_' = ErrorInfo(code, message)
    /\ genRet' = "false"
    /\ UNCHANGED outFile

\* mutant: the size is checked before the data
CheckPreconditions_SizeFirst(data, type, width, height) ==
    IF width <= 0 \/ height <= 0
    THEN ErrorInfo("INVALID_SIZE", "Invalid dimensions")
    ELSE IF data = <<>>
    THEN ErrorInfo("INVALID_DATA", "Empty data")
    ELSE IF ~validateData(data, type)
    THEN ErrorInfo("INVALID_DATA", "Data not valid for barcode type")
    ELSE NoError

\* the three precondition checks of generate: the error of the first that
\* fails, NoError when all pass
CheckPreconditions(data, type, width, height) ==
    IF data = <<>>
    THEN ErrorInfo("INVALID_DATA", "Empty data")
    ELSE IF width <= 0 \/ height <= 0
    THEN ErrorInfo("INVALID_SIZE", "Invalid dimensions")
    ELSE IF ~validateData(data, type)
    THEN ErrorInfo("INVALID_DATA", "Data not valid for barcode type")
    ELSE NoError

\* generator.generate(genArgs.data, config, outputPath)
Generate ==
    /\ UNCHANGED <<genArgs, notGen>>
    /\ lastCall' = "generate"
    /\ decodeRet' = NoText
    /\ sizeRet' = "none"
    /\ pixelBuf' = NoBuf
    /\ readerResult' = NoReader
    /\ LET failed == CheckPreconditions(genArgs.data, genArgs.type,
                                        genArgs.width, genArgs.height)
       IN  IF failed # NoError
           THEN GenFail(failed.code, failed.message) /\ writerMatrix' = NoMatrix
           ELSE \/ \* writer.encode throws
                   /\ GenFail("BARCODE_GENERATION_FAILED", "exception")
                   /\ writerMatrix' = NoMatrix
                \/ \E matrixWidth \in 1..MaxDim, matrixHeight \in 1..MaxDim :
                     LET pixels == MatrixPixels(matrixWidth, matrixHeight)
                         final  == FinalImage(pixels, matrixWidth, matrixHeight,
                                              genArgs.width, genArgs.height)
                     IN  /\ writerMatrix' = [width |-> matrixWidth,
                                             height |-> matrixHeight]
                         /\ \/ \* stbi_write_png returns 0
                               GenFail("BARCODE_GENERATION_FAILED",
                                       "Failed to write image")
                            \/ /\ outFile' = final
                               /\ genRet' = "true"
                               /\ UNCHANGED lastError_
    /\ everFailed' = (everFailed \/ genRet' = "false")

\* What ZXing::ReadBarcode does with a loaded image: it reports a valid
\* barcode with its text, reports none, or throws.
ReaderTexts == {"PART-1", "PART-2"}
ReaderOutcomes ==
    [kind : {"valid"}, text : ReaderTexts] \cup [kind : {"invalid", "throws"}, text : {""}]

\* mutant: a reader exception leaves lastError_ as it was
decode_ThrowUnreported(loaded, reader, lastError) ==
    IF ~loaded
    THEN [ret |-> NoText,
          lastError |-> ErrorInfo("FILE_NOT_FOUND", "Failed to load image"),
          buf |-> [loaded |-> FALSE, frees |-> 0]]
    ELSE IF reader.kind = "throws"
    THEN [ret |-> NoText, lastError |-> lastError,
          buf |-> [loaded |-> TRUE, frees |-> 1]]
    ELSE IF reader.kind = "valid"
    THEN [ret |-> SomeText(reader.text), lastError |-> lastError,
          buf |-> [loaded |-> TRUE, frees |-> 1]]
    ELSE [ret |-> NoText,
          lastError |-> ErrorInfo("DECODE_FAILED", "No barcode found"),
          buf |-> [loaded |-> TRUE, frees |-> 1]]

\* mutant: a successful decode resets the last-error record
decode_ClearsOnSuccess(loaded, reader, lastError) ==
    IF ~loaded
    THEN [ret |-> NoText,
          lastError |-> ErrorInfo("FILE_NOT_FOUND", "Failed to load image"),
          buf |-> [loaded |-> FALSE, frees |-> 0]]
    ELSE IF reader.kind = "throws"
    THEN [ret |-> NoText,
          lastError |-> ErrorInfo("DECODE_FAILED", "exception"),
          buf |-> [loaded |-> TRUE, frees |-> 1]]
    ELSE IF reader.kind = "valid"
    THEN [ret |-> SomeText(reader.text), lastError |-> NoError,
          buf |-> [loaded |-> TRUE, frees |-> 1]]
    ELSE [ret |-> NoText,
          lastError |-> ErrorInfo("DECODE_FAILED", "No barcode found"),
          buf |-> [loaded |-> TRUE, frees |-> 1]]

\* decode(imagePath) when stbi_load returns a buffer (loaded) or NULL, and the
\* reader behaves as `reader`: [ret, lastError (lastError_ afterwards), buf]
decode(loaded, reader, lastError) ==
    IF ~loaded
    THEN [ret |-> NoText,
          lastError |-> ErrorInfo("FILE_NOT_FOUND", "Failed to load image"),
          buf |-> [loaded |-> FALSE, frees |-> 0]]
    ELSE IF reader.kind = "throws"
    THEN [ret |-> NoText,
          lastError |-> ErrorInfo("DECODE_FAILED", "exception"),
          buf |-> [loaded |-> TRUE, frees |-> 1]]
    ELSE IF reader.kind = "valid"
    THEN [ret |-> SomeText(reader.text), lastError |-> lastError,
          buf |-> [loaded |-> TRUE, frees |-> 1]]
    ELSE [ret |-> NoText,
          lastError |-> ErrorInfo("DECODE_FAILED", "No barcode found"),
          buf |-> [loaded |-> TRUE, frees |-> 1]]

\* getImageSize(imagePath, width, height): [ret, lastError, buf]
getImageSize(loaded, lastError) ==
    IF ~loaded
    THEN [ret |-> "false", lastError |-> lastError,
          buf |-> [loaded |-> FALSE, frees |-> 0]]
    ELSE [ret |-> "true", lastError |-> lastError,
          buf |-> [loaded |-> TRUE, frees |-> 1]]

\* text = generator.decode(imagePath)
Decode ==
    /\ \E loaded \in BOOLEAN, reader \in ReaderOutcomes :
          LET out == decode(loaded, reader, lastError_)
          IN  /\ decodeRet' = out.ret
              /\ lastError_' = out.lastError
              /\ pixelBuf' = out.buf
              /\ readerResult' = IF loaded THEN reader ELSE NoReader
              /\ everFailed' = (everFailed \/ ~out.ret.has)
    /\ lastCall' = "decode"
    /\ sizeRet' = "none"
    /\ genRet' = "none"
    /\ writerMatrix' = NoMatrix
    /\ UNCHANGED <<genArgs, outFile, notGen>>

\* ok = generator.getImageSize(imagePath, width, height)
GetImageSize ==
    /\ \E loaded \in BOOLEAN :
          LET out == getImageSize(loaded, lastError_)
          IN  /\ sizeRet' = out.ret
              /\ lastError_' = out.lastError
              /\ pixelBuf' = out.buf
    /\ lastCall' = "getImageSize"
    /\ decodeRet' = NoText
    /\ readerResult' = NoReader
    /\ genRet' = "none"
    /\ writerMatrix' = NoMatrix
    /\ UNCHANGED <<genArgs, outFile, everFailed, notGen>>

\* What a call of validateData, encodeSpecialChars or decodeSpecialChars does
\* to the generator it is called on: none of the three reads or writes a
\* member.  (What they return is modelled by the operators of the same names.)
PureCall ==
    /\ genRet' = "none"
    /\ writerMatrix' = NoMatrix
    /\ decodeRet' = NoText
    /\ sizeRet' = "none"
    /\ pixelBuf' = NoBuf
    /\ readerResult' = NoReader
    /\ UNCHANGED <<lastError_, genArgs, outFile, everFailed, notGen>>

\* generator.validateData(data, type)
CallValidateData ==
    /\ lastCall' = "validateData"
    /\ PureCall

\* generator.encodeSpecialChars(input)
CallEncodeSpecialChars ==
    /\ lastCall' = "encodeSpecialChars"
    /\ PureCall

\* generator.decodeSpecialChars(input)
CallDecodeSpecialChars ==
    /\ lastCall' = "decodeSpecialChars"
    /\ PureCall

-----------------------------------------------------------------------------
(* barcode_generate_pure_c: Code 128 subset B rendered to a 24-bit BMP *)

\* CODE128_PATTERNS[v] is CODE128_PATTERNS[v + 1] here (1-based sequences)
CODE128_PATTERNS == <<
    <<2,1,2,2,2,2>>, <<2,2,2,1,2,2>>, <<2,2,2,2,2,1>>, <<1,2,1,2,2,3>>, <<1,2,1,3,2,2>>,
    <<1,3,1,2,2,2>>, <<1,2,2,2,1,3>>, <<1,2,2,3,1,2>>, <<1,3,2,2,1,2>>, <<2,2,1,2,1,3>>,
    <<2,2,1,3,1,2>>, <<2,3,1,2,1,2>>, <<1,1,2,2,3,2>>, <<1,2,2,1,3,2>>, <<1,2,2,2,3,1>>,
    <<1,1,3,2,2,2>>, <<1,2,3,1,2,2>>, <<1,2,3,2,2,1>>, <<2,2,3,2,1,1>>, <<2,2,1,1,3,2>>,
    <<2,2,1,2,3,1>>, <<2,1,3,2,1,2>>, <<2,2,3,1,1,2>>, <<3,1,2,1,3,1>>, <<3,1,1,2,2,2>>,
    <<3,2,1,1,2,2>>, <<3,2,1,2,2,1>>, <<3,1,2,2,1,2>>, <<3,2,2,1,1,2>>, <<3,2,2,2,1,1>>,
    <<2,1,2,1,2,3>>, <<2,1,2,3,2,1>>, <<2,3,2,1,2,1>>, <<1,1,1,3,2,3>>, <<1,3,1,1,2,3>>,
    <<1,3,1,3,2,1>>, <<1,1,2,3,1,3>>, <<1,3,2,1,1,3>>, <<1,3,2,3,1,1>>, <<2,1,1,3,1,3>>,
    <<2,3,1,1,1,3>>, <<2,3,1,3,1,1>>, <<1,1,2,1,3,3>>, <<1,1,2,3,3,1>>, <<1,3,2,1,3,1>>,
    <<1,1,3,1,2,3>>, <<1,1,3,3,2,1>>, <<1,3,3,1,2,1>>, <<3,1,3,1,2,1>>, <<2,1,1,3,3,1>>,
    <<2,3,1,1,3,1>>, <<2,1,3,1,1,3>>, <<2,1,3,3,1,1>>, <<2,1,3,1,3,1>>, <<3,1,1,1,2,3>>,
    <<3,1,1,3,2,1>>, <<3,3,1,1,2,1>>, <<3,1,2,1,1,3>>, <<3,1,2,3,1,1>>, <<3,3,2,1,1,1>>,
    <<3,1,4,1,1,1>>, <<2,2,1,4,1,1>>, <<4,3,1,1,1,1>>, <<1,1,1,2,2,4>>, <<1,1,1,4,2,2>>,
    <<1,2,1,1,2,4>>, <<1,2,1,4,2,1>>, <<1,4,1,1,2,2>>, <<1,4,1,2,2,1>>, <<1,1,2,2,1,4>>,
    <<1,1,2,4,1,2>>, <<1,2,2,1,1,4>>, <<1,2,2,4,1,1>>, <<1,4,2,1,1,2>>, <<1,4,2,2,1,1>>,
    <<2,4,1,2,1,1>>, <<2,2,1,1,1,4>>, <<4,1,3,1,1,1>>, <<2,4,1,1,1,2>>, <<1,3,4,1,1,1>>,
    <<1,1,1,2,4,2>>, <<1,2,1,1,4,2>>, <<1,2,1,2,4,1>>, <<1,1,4,2,1,2>>, <<1,2,4,1,1,2>>,
    <<1,2,4,2,1,1>>, <<4,1,1,2,1,2>>, <<4,2,1,1,1,2>>, <<4,2,1,2,1,1>>, <<2,1,2,1,4,1>>,
    <<2,1,4,1,2,1>>, <<4,1,2,1,2,1>>, <<1,1,1,1,4,3>>, <<1,1,1,3,4,1>>, <<1,3,1,1,4,1>>,
    <<1,1,4,1,1,3>>, <<1,1,4,3,1,1>>, <<4,1,1,1,1,3>>, <<4,1,1,3,1,1>>, <<1,1,3,1,4,1>>,
    <<1,1,4,1,3,1>>, <<3,1,1,1,4,1>>, <<4,1,1,1,3,1>>, <<2,1,1,4,1,2>>, <<2,1,1,2,1,4>>,
    <<2,1,1,2,3,2>>, <<2,3,3,1,1,1,2>>
>>

START_B == 104
STOP == 106
MAX_DATA_LEN == 80
MIN_HEIGHT == 60
MIN_MODULE_WIDTH == 2

\* C integer division (truncation toward zero), for a positive divisor
CDiv(a, b) == IF a >= 0 THEN a \div b ELSE 0 - ((0 - a) \div b)

Min(a, b) == IF a < b THEN a ELSE b

\* mutant: the range test is missing
code128b_value_Unchecked(c) == c - 32

code128b_value(c) == IF c >= 32 /\ c <= 127 THEN c - 32 ELSE 0

RECURSIVE WeightedSum(_, _)
\* sum over i < Len(data) of code128b_value(data[i]) * (i + 1), from 1-based position k
WeightedSum(data, k) ==
    IF k > Len(data) THEN 0
    ELSE code128b_value(data[k]) * k + WeightedSum(data, k + 1)

calculate_checksum(data, startCode) == (startCode + WeightedSum(data, 1)) % 103

\* mutant: the checksum pattern is not drawn
Symbols_NoChecksum(data) ==
    LET values == [k \in 1..Len(data) |-> code128b_value(data[k])]
        inTable(v) == v >= 0 /\ v < 106
    IN  <<START_B>> \o SelectSeq(values, inTable) \o <<STOP>>

\* the pattern indices drawn, in drawing order
Symbols(data) ==
    LET values == [k \in 1..Len(data) |-> code128b_value(data[k])]
        inTable(v) == v >= 0 /\ v < 106
        checksum == calculate_checksum(data, START_B)
    IN  <<START_B>> \o SelectSeq(values, inTable)
            \o (IF inTable(checksum) THEN <<checksum>> ELSE <<>>) \o <<STOP>>

\* DRAW_PATTERN(pat) from element idx on: the black column runs it stores
\* (both ends inclusive) and the value of currentX it leaves
RECURSIVE DrawPattern(_, _, _, _, _)
DrawPattern(pat, idx, currentX, moduleWidth, clipRight) ==
    IF idx > Len(pat) THEN [runs |-> <<>>, currentX |-> currentX]
    ELSE LET barWidth == pat[idx] * moduleWidth
             isBar    == (idx - 1) % 2 = 0
             hi       == Min(currentX + barWidth, clipRight)
             run      == IF isBar /\ currentX < hi
                         THEN <<[from |-> currentX, to |-> hi - 1]>>
                         ELSE <<>>
             rest     == DrawPattern(pat, idx + 1, currentX + barWidth, moduleWidth, clipRight)
         IN  [runs |-> run \o rest.runs, currentX |-> rest.currentX]

\* DRAW_PATTERN on symbols[lo], ..., symbols[hi] in turn: the first half of
\* the range, then the second half from the currentX the first half left
\* (halving keeps the evaluation shallow for payloads of MAX_DATA_LEN)
RECURSIVE DrawRange(_, _, _, _, _, _)
DrawRange(symbols, lo, hi, currentX, moduleWidth, clipRight) ==
    IF lo > hi THEN [runs |-> <<>>, currentX |-> currentX]
    ELSE IF lo = hi
    THEN DrawPattern(CODE128_PATTERNS[symbols[lo] + 1], 1, currentX, moduleWidth,
                     clipRight)
    ELSE LET mid   == (lo + hi) \div 2
             left  == DrawRange(symbols, lo, mid, currentX, moduleWidth, clipRight)
             right == DrawRange(symbols, mid + 1, hi, left.currentX, moduleWidth,
                                clipRight)
         IN  [runs |-> left.runs \o right.runs, currentX |-> right.currentX]

\* the DRAW_PATTERN invocations of lines 178-199 from symbols[k] on
DrawSymbols(symbols, k, currentX, moduleWidth, clipRight) ==
    DrawRange(symbols, k, Len(symbols), currentX, moduleWidth, clipRight)

\* mutant: the module width is only kept positive, not raised to 2
ModuleWidth_MinimumOne(width, margin, totalModules) ==
    LET moduleWidth == CDiv(width - 2 * margin, totalModules)
    IN  IF moduleWidth < 1 THEN 1 ELSE moduleWidth

ModuleWidth(width, margin, totalModules) ==
    LET moduleWidth == CDiv(width - 2 * margin, totalModules)
    IN  IF moduleWidth < MIN_MODULE_WIDTH THEN MIN_MODULE_WIDTH ELSE moduleWidth

\* everything barcode_generate_pure_c computes between the argument checks
\* and fopen
Render(data, width0, height0, margin) ==
    LET dataLen      == Len(data)
        totalModules == 11 + dataLen * 11 + 11 + 13
        moduleWidth  == ModuleWidth(width0, margin, totalModules)
        width        == moduleWidth * totalModules + 2 * margin
        height       == IF height0 < MIN_HEIGHT THEN MIN_HEIGHT ELSE height0
        rowSize      == CDiv(width * 3 + 3, 4) * 4
        symbols      == Symbols(data)
        drawn        == DrawSymbols(symbols, 1, margin, moduleWidth, width - margin)
    IN  [drawn         |-> TRUE,
         totalModules  |-> totalModules,
         moduleWidth   |-> moduleWidth,
         width         |-> width,
         height        |-> height,
         rowSize       |-> rowSize,
         barcodeTop    |-> margin,
         barcodeBottom |-> height - margin,
         checksum      |-> calculate_checksum(data, START_B),
         symbols       |-> symbols,
         runs          |-> drawn.runs,
         endX          |-> drawn.currentX]

NoDraw ==
    [drawn |-> FALSE, totalModules |-> 0, moduleWidth |-> 0, width |-> 0, height |-> 0,
     rowSize |-> 0, barcodeTop |-> 0, barcodeBottom |-> 0, checksum |-> 0,
     symbols |-> <<>>, runs |-> <<>>, endX |-> 0]

\* int offset = y * rowSize + x * 3
StoreOffset(x, y, rowSize) == y * rowSize + x * 3

\* if (offset + 2 < rowSize * height): the three bytes at offset are stored
StoreGuard(offset, rowSize, height) == offset + 2 < rowSize * height

\* The offsets stored for the corner pixels of one bar: x at the two ends of
\* the run, y at barcodeTop and barcodeBottom - 1.  With rowSize > 0 the
\* offset grows with x and with y, so every store of the bar lies between
\* the least and the greatest of these.
BarStores(run, r) ==
    LET rows    == IF r.barcodeTop < r.barcodeBottom
                   THEN {r.barcodeTop, r.barcodeBottom - 1} ELSE {}
        offsets == {StoreOffset(x, y, r.rowSize) : x \in {run.from, run.to}, y \in rows}
    IN  {o \in offsets : StoreGuard(o, r.rowSize, r.height)}

\* some store of the drawing lands outside pixels[0 .. rowSize * height - 1]
OutOfBuffer(r) ==
    \E k \in 1..Len(r.runs) :
        \E o \in BarStores(r.runs[k], r) : o < 0 \/ o + 2 >= r.rowSize * r.height

NoBmp == [exists |-> FALSE, biWidth |-> 0, biHeight |-> 0, biSizeImage |-> 0]

\* payload characters: LF, ' ', 'A', DEL, 0xC8 (LF and 0xC8 are outside subset B)
PureCBytes == {10, 32, 65, 127, 200}
\* a payload of 81 characters, one more than MAX_DATA_LEN
TooLong == [k \in 1..(MAX_DATA_LEN + 1) |-> 65]
\* payloads of MAX_DATA_LEN characters: all DEL, and a mix over ' '..DEL
Longest == {[k \in 1..MAX_DATA_LEN |-> 127],
            [k \in 1..MAX_DATA_LEN |-> 32 + ((7 * k) % 96)]}
PureCData == SeqsUpTo(PureCBytes, MaxDataLen) \cup {TooLong} \cup Longest
PureCWidths == {0, 92, 100, 300}
PureCHeights == {30, 60, 100}
PureCMargins == {-5, 0, 10}

PureCIdle ==
    /\ pcPhase = "idle"
    /\ pcArgs = [dataNull |-> TRUE, data |-> <<>>, pathNull |-> TRUE,
                 width |-> 0, height |-> 0, margin |-> 0]
    /\ pcRet = 0
    /\ pcDraw = NoDraw
    /\ bmp = NoBmp

PureCInit ==
    /\ pcPhase = "args"
    /\ pcArgs \in [dataNull : BOOLEAN, data : PureCData, pathNull : BOOLEAN,
                   width : PureCWidths, height : PureCHeights, margin : PureCMargins]
    /\ pcArgs.dataNull => pcArgs.data = <<>>
    /\ pcRet = 0
    /\ pcDraw = NoDraw
    /\ bmp = NoBmp

\* barcode_generate_pure_c(data, outputPath, width, height, margin)
BarcodeGeneratePureC ==
    /\ pcPhase = "args"
    /\ UNCHANGED <<pcArgs, notPureC>>
    /\ IF pcArgs.dataNull \/ pcArgs.pathNull \/ pcArgs.data = <<>>
       THEN pcRet' = -1 /\ pcPhase' = "returned" /\ UNCHANGED <<pcDraw, bmp>>
       ELSE IF Len(pcArgs.data) > MAX_DATA_LEN
       THEN pcRet' = -2 /\ pcPhase' = "returned" /\ UNCHANGED <<pcDraw, bmp>>
       ELSE LET r == Render(pcArgs.data, pcArgs.width, pcArgs.height, pcArgs.margin)
            IN  \/ \* malloc returns NULL
                   pcRet' = -3 /\ pcPhase' = "returned" /\ UNCHANGED <<pcDraw, bmp>>
                \/ \* a store outside the buffer: the process may die there
                   /\ OutOfBuffer(r) = TRUE
                   /\ pcPhase' = "crashed"
                   /\ pcDraw' = r
                   /\ UNCHANGED <<pcRet, bmp>>
                \/ \* fopen returns NULL
                   pcRet' = -4 /\ pcPhase' = "returned" /\ pcDraw' = r /\ UNCHANGED bmp
                \/ /\ pcRet' = 0
                   /\ pcPhase' = "returned"
                   /\ pcDraw' = r
                   /\ bmp' = [exists |-> TRUE, biWidth |-> r.width, biHeight |-> r.height,
                              biSizeImage |-> r.rowSize * r.height]

-----------------------------------------------------------------------------
(* BatchProcessor *)

BatchPaths == {"a.drw", "b.drw"}

BatchResult(path, ok, err) == [filePath |-> path, success |-> ok, errorMessage |-> err]

\* mutant: a file that cannot be opened is skipped without a result
ProcessItem_DropFailed(filePath, good, current, total, hasCallback) ==
    [calls   |-> IF hasCallback THEN <<[current |-> current, total |-> total]>> ELSE <<>>,
     results |-> IF ~good THEN <<>> ELSE <<BatchResult(filePath, TRUE, "")>>]

\* mutant: the callback is invoked after the file check, so not for failures
ProcessItem_CallbackAfterCheck(filePath, good, current, total, hasCallback) ==
    [calls   |-> IF hasCallback /\ good
                 THEN <<[current |-> current, total |-> total]>> ELSE <<>>,
     results |-> IF ~good
                 THEN <<BatchResult(filePath, FALSE, "File not found")>>
                 ELSE <<BatchResult(filePath, TRUE, "")>>]

\* one iteration of the loop of process, after ++current
ProcessItem(filePath, good, current, total, hasCallback) ==
    [calls   |-> IF hasCallback THEN <<[current |-> current, total |-> total]>> ELSE <<>>,
     results |-> IF ~good
                 THEN <<BatchResult(filePath, FALSE, "File not found")>>
                 ELSE <<BatchResult(filePath, TRUE, "")>>]

\* the loop of process from queue position k, with `current` as it stands
RECURSIVE ProcessLoop(_, _, _, _, _, _)
ProcessLoop(queue, opens, k, current, total, hasCallback) ==
    IF k > Len(queue) THEN [calls |-> <<>>, results |-> <<>>]
    ELSE LET item == ProcessItem(queue[k], opens[k], current + 1, total, hasCallback)
             rest == ProcessLoop(queue, opens, k + 1, current + 1, total, hasCallback)
         IN  [calls |-> item.calls \o rest.calls, results |-> item.results \o rest.results]

\* fileQueue_.push_back(filePath)
addFile(queue, filePath) == Append(queue, filePath)

\* the paths of filePaths[k..] that are not in `seen`, each once
RECURSIVE Unseen(_, _, _)
Unseen(filePaths, k, seen) ==
    IF k > Len(filePaths) THEN <<>>
    ELSE IF filePaths[k] \in seen THEN Unseen(filePaths, k + 1, seen)
    ELSE <<filePaths[k]>> \o Unseen(filePaths, k + 1, seen \cup {filePaths[k]})

\* mutant: paths already queued are not queued again
addFiles_SkipDuplicates(queue, filePaths) ==
    queue \o Unseen(filePaths, 1, {queue[i] : i \in 1..Len(queue)})

\* fileQueue_.insert(fileQueue_.end(), filePaths.begin(), filePaths.end())
addFiles(queue, filePaths) == queue \o filePaths

\* fileQueue_.clear()
clear(queue) == <<>>

\* mutant: the loop takes each path off the queue as it handles it
process_ConsumesQueue(queue, opens, hasCallback) ==
    LET out == ProcessLoop(queue, opens, 1, 0, Len(queue), hasCallback)
    IN  [results |-> out.results, calls |-> out.calls, queue |-> <<>>]

\* BatchProcessor::process: the results returned, the callback invocations
\* made and fileQueue_ as the loop leaves it (it reads the queue by const
\* reference)
process(queue, opens, hasCallback) ==
    LET out == ProcessLoop(queue, opens, 1, 0, Len(queue), hasCallback)
    IN  [results |-> out.results, calls |-> out.calls, queue |-> queue]

BatchCall(op, paths) == [op |-> op, paths |-> paths]

\* the call that returned was not process: nothing was returned or reported
NoProcess ==
    /\ procCalled' = FALSE
    /\ procQueue' = <<>>
    /\ procCallback' = FALSE
    /\ procOpens' = <<>>
    /\ results' = <<>>
    /\ progressLog' = <<>>

BatchIdle ==
    /\ fileQueue_ = <<>>
    /\ procCalled = FALSE
    /\ procQueue = <<>>
    /\ procCallback = FALSE
    /\ procOpens = <<>>
    /\ results = <<>>
    /\ progressLog = <<>>
    /\ batchCall = BatchCall("none", <<>>)
    /\ addedSinceClear = 0

BatchInit == BatchIdle

\* processor.addFile(filePath)
AddFile ==
    /\ Len(fileQueue_) < MaxQueue
    /\ \E filePath \in BatchPaths :
          /\ fileQueue_' = addFile(fileQueue_, filePath)
          /\ batchCall' = BatchCall("addFile", <<filePath>>)
    /\ addedSinceClear' = addedSinceClear + 1
    /\ NoProcess
    /\ UNCHANGED notBatch

\* processor.addFiles(filePaths)
AddFiles ==
    /\ \E filePaths \in SeqsUpTo(BatchPaths, 2) :
          /\ Len(fileQueue_) + Len(filePaths) <= MaxQueue
          /\ fileQueue_' = addFiles(fileQueue_, filePaths)
          /\ batchCall' = BatchCall("addFiles", filePaths)
          /\ addedSinceClear' = addedSinceClear + Len(filePaths)
    /\ NoProcess
    /\ UNCHANGED notBatch

\* processor.clear()
Clear ==
    /\ fileQueue_' = clear(fileQueue_)
    /\ batchCall' = BatchCall("clear", <<>>)
    /\ addedSinceClear' = 0
    /\ NoProcess
    /\ UNCHANGED notBatch

\* results = processor.process(config, progressCallback)
Process ==
    \E hasCallback \in BOOLEAN, opens \in [1..Len(fileQueue_) -> BOOLEAN] :
        LET out == process(fileQueue_, opens, hasCallback)
        IN  /\ procCalled' = TRUE
            /\ procQueue' = fileQueue_
            /\ procCallback' = hasCallback
            /\ procOpens' = opens
            /\ results' = out.results
            /\ progressLog' = out.calls
            /\ fileQueue_' = out.queue
            /\ batchCall' = BatchCall("process", <<>>)
            /\ UNCHANGED <<addedSinceClear, notBatch>>

\* the `failures` vector: one "path: message" text per failed result, in order
SummaryFailures(batchResults) ==
    LET failed == SelectSeq(batchResults, LAMBDA r : ~r.success)
    IN  [k \in 1..Len(failed) |-> <<failed[k].filePath, ": ", failed[k].errorMessage>>]

SummaryHead(batchResults) ==
    LET successCount == Cardinality({i \in 1..Len(batchResults) : batchResults[i].success})
        failureCount == Cardinality({i \in 1..Len(batchResults) : ~batchResults[i].success})
    IN  << <<"Batch Processing Summary">>,
           <<"========================">>,
           <<"Total files: ", Len(batchResults)>>,
           <<"Successful: ", successCount>>,
           <<"Failed: ", failureCount>> >>

\* mutant: the detail section is written even when nothing failed
getSummary_DetailsAlways(batchResults) ==
    LET failures == SummaryFailures(batchResults)
    IN  SummaryHead(batchResults) \o << <<"">>, <<"Failure details:">> >>
            \o [k \in 1..Len(failures) |-> <<"  - ">> \o failures[k]]

\* BatchProcessor::getSummary(results): the lines of the text, each line the
\* sequence of the values streamed into it
getSummary(batchResults) ==
    LET failures == SummaryFailures(batchResults)
    IN  SummaryHead(batchResults)
            \o (IF failures # <<>>
                THEN << <<"">>, <<"Failure details:">> >>
                         \o [k \in 1..Len(failures) |-> <<"  - ">> \o failures[k]]
                ELSE <<>>)

\* results handed to getSummary: successes, and failures with two different
\* messages or none
SummaryResults ==
    {BatchResult(path, TRUE, "") : path \in BatchPaths}
        \cup {BatchResult(path, FALSE, err) :
                 path \in BatchPaths, err \in {"File not found", "Permission denied", ""}}

SumIdle ==
    /\ sumPhase = "idle"
    /\ sumArgs = <<>>
    /\ summary = <<>>

SumInit ==
    /\ sumPhase = "args"
    /\ sumArgs \in SeqsUpTo(SummaryResults, MaxQueue)
    /\ summary = <<>>

\* summary = BatchProcessor::getSummary(sumArgs)
GetSummary ==
    /\ sumPhase = "args"
    /\ summary' = getSummary(sumArgs)
    /\ sumPhase' = "returned"
    /\ UNCHANGED <<sumArgs, notSum>>

-----------------------------------------------------------------------------
(* calculateGridPosition *)

\* C remainder: the sign follows the dividend
CMod(a, b) == a - b * CDiv(a, b)

\* mutant: rows grow upward (y = startY + row * (height + spacing))
calculateGridPosition_RowsUp(index, columns, spacing, startX, startY, width, height) ==
    LET c   == IF columns < 1 THEN 1 ELSE columns
        col == CMod(index, c)
        row == CDiv(index, c)
    IN  [x |-> startX + col * (width + spacing),
         y |-> startY + row * (height + spacing)]

\* mutant: column and row exchanged (col = index / columns, row = index % columns)
calculateGridPosition_SwapColRow(index, columns, spacing, startX, startY, width, height) ==
    LET c   == IF columns < 1 THEN 1 ELSE columns
        col == CDiv(index, c)
        row == CMod(index, c)
    IN  [x |-> startX + col * (width + spacing),
         y |-> startY - row * (height + spacing)]

\* Coordinates are doubles in the code; the model draws them from integers,
\* on which the double arithmetic of the formula is exact.
calculateGridPosition(index, columns, spacing, startX, startY, width, height) ==
    LET c   == IF columns < 1 THEN 1 ELSE columns
        col == CMod(index, c)
        row == CDiv(index, c)
    IN  [x |-> startX + col * (width + spacing),
         y |-> startY - row * (height + spacing)]

GridIdle ==
    /\ gridPhase = "idle"
    /\ gridArgs = [index |-> 0, columns |-> 0, spacing |-> 0, startX |-> 0, startY |-> 0,
                   width |-> 0, height |-> 0]
    /\ gridPos = [x |-> 0, y |-> 0]

GridInit ==
    /\ gridPhase = "args"
    /\ gridArgs \in [index : -1..MaxIndex, columns : -1..3, spacing : {0, 10},
                     startX : {0, 7}, startY : {0, -4}, width : {50, 20},
                     height : {50, 30}]
    /\ gridPos = [x |-> 0, y |-> 0]

\* pos = calculateGridPosition(index, columns, spacing, startX, startY, width, height)
CalculateGridPosition ==
    /\ gridPhase = "args"
    /\ gridPos' = calculateGridPosition(gridArgs.index, gridArgs.columns, gridArgs.spacing,
                                        gridArgs.startX, gridArgs.startY,
                                        gridArgs.width, gridArgs.height)
    /\ gridPhase' = "returned"
    /\ UNCHANGED <<gridArgs, notGrid>>

-----------------------------------------------------------------------------
(* CreoComBridge: insertImage, batchInsertImages, batchInsertImagesGrid *)

\* What the environment does to one insertImage call: the file is missing
\* (validateImageFile), the host refuses CreateDraftingImage, or all is well.
ComOutcomes == {"ok", "file_missing", "create_failed"}

ComError(text, path) == [text |-> text, path |-> path]
NoComError == ComError("", "")

\* insertImage(img.imagePath, img.x, img.y, img.width, img.height):
\* [ok, lastError (m_lastError afterwards), inserted (images created)]
insertImage(img, initialized, lastError, outcome) ==
    LET fail(e) == [ok |-> FALSE, lastError |-> e, inserted |-> <<>>]
    IN  IF img.imagePath = ""
        THEN fail(ComError("Image path cannot be empty", ""))
        ELSE IF img.width < 0 \/ img.height < 0
        THEN fail(ComError("Image dimensions cannot be negative", ""))
        ELSE IF outcome = "file_missing"
        THEN fail(ComError("Image file not found: ", img.imagePath))
        ELSE IF ~initialized
        THEN fail(ComError("COM bridge not initialized - call initialize() first", ""))
        ELSE IF outcome = "create_failed"
        THEN fail(ComError("Failed to create drafting image in drawing", ""))
        ELSE [ok |-> TRUE, lastError |-> lastError,
              inserted |-> <<[path   |-> img.imagePath, x |-> img.x, y |-> img.y,
                              width  |-> IF img.width > 0 THEN img.width ELSE 50,
                              height |-> IF img.height > 0 THEN img.height ELSE 50]>>]

BatchInsertResult(total) ==
    [totalCount |-> total, successCount |-> 0, failCount |-> 0,
     failedPaths |-> <<>>, errorMessages |-> <<>>]

\* mutant: a failure is counted and its path kept, but its message is not
Tally_NoMessage(result, path, r) ==
    IF r.ok THEN [result EXCEPT !.successCount = @ + 1]
    ELSE [result EXCEPT !.failCount = @ + 1,
                        !.failedPaths = Append(@, path)]

\* the body of the batch loops: account for one insertImage outcome r
Tally(result, path, r) ==
    IF r.ok THEN [result EXCEPT !.successCount = @ + 1]
    ELSE [result EXCEPT !.failCount = @ + 1,
                        !.failedPaths = Append(@, path),
                        !.errorMessages = Append(@, r.lastError)]

\* the loop of batchInsertImages / batchInsertImagesGrid from image k on
RECURSIVE InsertLoop(_, _, _, _, _, _)
InsertLoop(images, outcomes, k, initialized, lastError, result) ==
    IF k > Len(images)
    THEN [result |-> result, lastError |-> lastError, inserted |-> <<>>]
    ELSE LET r    == insertImage(images[k], initialized, lastError, outcomes[k])
             rest == InsertLoop(images, outcomes, k + 1, initialized, r.lastError,
                                Tally(result, images[k].imagePath, r))
         IN  [rest EXCEPT !.inserted = r.inserted \o @]

batchInsertImages(images, outcomes, initialized, lastError) ==
    InsertLoop(images, outcomes, 1, initialized, lastError,
               BatchInsertResult(Len(images)))

\* the image of index i (0-based) of a grid batch, at its calculated position
GridImage(path, i, params) ==
    LET columns == IF params.columns < 1 THEN 1 ELSE params.columns
        pos == calculateGridPosition(i, columns, params.spacing, params.startX,
                                     params.startY, params.width, params.height)
    IN  [imagePath |-> path, x |-> pos.x, y |-> pos.y,
         width |-> params.width, height |-> params.height]

batchInsertImagesGrid(imagePaths, params, outcomes, initialized, lastError) ==
    InsertLoop([k \in 1..Len(imagePaths) |-> GridImage(imagePaths[k], k - 1, params)],
               outcomes, 1, initialized, lastError,
               BatchInsertResult(Len(imagePaths)))

\* the BatchImageInfo of the k-th path of a positioned batch; the caller's
\* positions put image k at (100 * (k - 1), 0)
ImageInfo(path, k, width, height) ==
    [imagePath |-> path, x |-> 100 * (k - 1), y |-> 0, width |-> width, height |-> height]

ComPaths == {"", "a.png", "b.png"}

ComIdle ==
    /\ m_initialized = FALSE
    /\ m_lastError = NoComError
    /\ hostImages = <<>>
    /\ comPhase = "idle"
    /\ comArgs = [paths |-> <<>>, width |-> 0, height |-> 0, columns |-> 0,
                  spacing |-> 0, startX |-> 0, startY |-> 0]
    /\ comOutcomes = <<>>
    /\ comResult = BatchInsertResult(0)

ComInit ==
    /\ m_initialized \in BOOLEAN
    /\ m_lastError = NoComError
    /\ hostImages = <<>>
    /\ comPhase = "args"
    /\ comArgs \in [paths : SeqsUpTo(ComPaths, MaxBatch), width : {-1, 50}, height : {50},
                    columns : {0, 2}, spacing : {10}, startX : {0}, startY : {0}]
    /\ comOutcomes = <<>>
    /\ comResult = BatchInsertResult(0)

ComReturn(call, out, outcomes) ==
    /\ comPhase' = call
    /\ comOutcomes' = outcomes
    /\ comResult' = out.result
    /\ m_lastError' = out.lastError
    /\ hostImages' = hostImages \o out.inserted
    /\ UNCHANGED <<m_initialized, comArgs, notCom>>

\* result = bridge.batchInsertImages(images)
BatchInsertImages ==
    /\ comPhase = "args"
    /\ \E outcomes \in [1..Len(comArgs.paths) -> ComOutcomes] :
          LET images == [k \in 1..Len(comArgs.paths) |->
                            ImageInfo(comArgs.paths[k], k, comArgs.width, comArgs.height)]
          IN  ComReturn("batchInsertImages",
                        batchInsertImages(images, outcomes, m_initialized, m_lastError),
                        outcomes)

\* result = bridge.batchInsertImagesGrid(imagePaths, params)
BatchInsertImagesGrid ==
    /\ comPhase = "args"
    /\ \E outcomes \in [1..Len(comArgs.paths) -> ComOutcomes] :
          ComReturn("batchInsertImagesGrid",
                    batchInsertImagesGrid(comArgs.paths, comArgs, outcomes,
                                          m_initialized, m_lastError),
                    outcomes)

-----------------------------------------------------------------------------
(* C API: barcode_batch_insert_images, barcode_batch_insert_images_grid *)

\* a NULL entry of the imagePaths array
NullPtr == "NULL"
CapiEntries == {NullPtr, "a.png"}

NoResultC == [set |-> FALSE, totalCount |-> 0, successCount |-> 0, failCount |-> 0]
ResultC(total, success, failed) ==
    [set |-> TRUE, totalCount |-> total, successCount |-> success, failCount |-> failed]

\* the 1-based positions, among the first `count` entries of the array,
\* of the entries that are not NULL
NonNullIdx(paths, count) ==
    SelectSeq([i \in 1..count |-> i], LAMBDA i : paths[i] # NullPtr)

CapiIdle ==
    /\ capiPhase = "idle"
    /\ capiArgs = [pathsNull |-> TRUE, paths |-> <<>>, positionsNull |-> TRUE,
                   count |-> 0, resultNull |-> TRUE, columns |-> 0]
    /\ capiRet = 0
    /\ capiResult = NoResultC
    /\ g_comBridgeLastError = NoComError

CapiInit ==
    /\ capiPhase = "args"
    /\ capiArgs \in [pathsNull : BOOLEAN, paths : SeqsUpTo(CapiEntries, MaxBatch),
                     positionsNull : BOOLEAN, count : -1..MaxBatch,
                     resultNull : BOOLEAN, columns : {0, 2}]
    /\ IF capiArgs.pathsNull THEN capiArgs.paths = <<>>
       ELSE capiArgs.count <= Len(capiArgs.paths)    \* the array holds count entries
    /\ capiRet = 0
    /\ capiResult = NoResultC
    /\ g_comBridgeLastError = NoComError

\* the common shape of the two wrappers: `invalid` is the parameter check,
\* bridgeCall[outcomes] what the bridge call returns under each environment
CapiBatch(call, invalid, invalidMessage, bridgeCall) ==
    LET initial == IF capiArgs.resultNull THEN capiResult
                   ELSE ResultC(capiArgs.count, 0, 0)
    IN  /\ capiPhase' = call
        /\ UNCHANGED <<capiArgs, m_initialized, comPhase, comArgs, comOutcomes, comResult,
                       notCapi>>
        /\ IF invalid
           THEN /\ g_comBridgeLastError' = ComError(invalidMessage, "")
                /\ capiRet' = 0
                /\ capiResult' = initial
                /\ UNCHANGED <<m_lastError, hostImages>>
           ELSE \/ \* std::exception (std::bad_alloc) while the vector is built
                   /\ g_comBridgeLastError' = ComError("std::bad_alloc", "")
                   /\ capiRet' = 0
                   /\ capiResult' = initial
                   /\ UNCHANGED <<m_lastError, hostImages>>
                \/ \E outcomes \in DOMAIN bridgeCall :
                         LET out == bridgeCall[outcomes]
                             batchResult == out.result
                         IN  /\ m_lastError' = out.lastError
                             /\ hostImages' = hostImages \o out.inserted
                             /\ capiResult' =
                                   IF capiArgs.resultNull THEN capiResult
                                   ELSE ResultC(batchResult.totalCount,
                                                batchResult.successCount,
                                                batchResult.failCount)
                             /\ g_comBridgeLastError' =
                                   IF batchResult.failCount > 0
                                      /\ batchResult.errorMessages # <<>>
                                   THEN batchResult.errorMessages[
                                            Len(batchResult.errorMessages)]
                                   ELSE NoComError
                             /\ capiRet' = batchResult.successCount

\* barcode_batch_insert_images(imagePaths, positions, count, width, height, result)
BarcodeBatchInsertImages ==
    /\ capiPhase = "args"
    /\ CapiBatch("barcode_batch_insert_images",
                 capiArgs.pathsNull \/ capiArgs.positionsNull \/ capiArgs.count <= 0,
                 "Invalid parameters for batch insert",
                 LET idx == NonNullIdx(capiArgs.paths, capiArgs.count)
                 IN  [outcomes \in [1..Len(idx) -> ComOutcomes] |->
                         batchInsertImages(
                             [k \in 1..Len(idx) |->
                                 ImageInfo(capiArgs.paths[idx[k]], idx[k], 50, 50)],
                             outcomes, m_initialized, m_lastError)])

\* barcode_batch_insert_images_grid(imagePaths, count, startX, startY, width,
\*                                  height, columns, spacing, result)
BarcodeBatchInsertImagesGrid ==
    /\ capiPhase = "args"
    /\ CapiBatch("barcode_batch_insert_images_grid",
                 capiArgs.pathsNull \/ capiArgs.count <= 0,
                 "Invalid parameters for grid batch insert",
                 LET idx == NonNullIdx(capiArgs.paths, capiArgs.count)
                 IN  [outcomes \in [1..Len(idx) -> ComOutcomes] |->
                         batchInsertImagesGrid(
                             [k \in 1..Len(idx) |-> capiArgs.paths[idx[k]]],
                             [startX |-> 0, startY |-> 0, width |-> 50, height |-> 50,
                              columns |-> IF capiArgs.columns > 0 THEN capiArgs.columns
                                          ELSE 1,
                              spacing |-> 10],
                             outcomes, m_initialized, m_lastError)])

-----------------------------------------------------------------------------
(* DataSyncChecker: checkSync, promptUpdate, setUpdateConfirmCallback *)

SyncStatus == {"IN_SYNC", "OUT_OF_SYNC", "BARCODE_NOT_FOUND", "DECODE_ERROR", "UNKNOWN"}

getStatusMessage(status) ==
    CASE status = "IN_SYNC" -> "Barcode data matches current part name"
      [] status = "OUT_OF_SYNC" ->
            "Barcode data does not match current part name - update recommended"
      [] status = "BARCODE_NOT_FOUND" -> "No barcode found in drawing"
      [] status = "DECODE_ERROR" -> "Could not decode barcode data"
      [] OTHER -> "Synchronization status unknown"

\* SyncCheckResult; the constructor leaves status UNKNOWN and warningDisplayed false
SyncCheckResult(status, currentPartName, barcodeData, message, warningDisplayed) ==
    [status |-> status, currentPartName |-> currentPartName,
     barcodeData |-> barcodeData, message |-> message,
     warningDisplayed |-> warningDisplayed]

\* mutant: the empty part name is tested before the empty barcode data
checkSync_PartNameFirst(currentPartName, decodedData) ==
    IF currentPartName = <<>>
    THEN SyncCheckResult("UNKNOWN", currentPartName, decodedData,
                         "Part name is empty", FALSE)
    ELSE IF decodedData = <<>>
    THEN SyncCheckResult("BARCODE_NOT_FOUND", currentPartName, decodedData,
                         getStatusMessage("BARCODE_NOT_FOUND"), FALSE)
    ELSE IF decodedData = currentPartName
    THEN SyncCheckResult("IN_SYNC", currentPartName, decodedData,
                         getStatusMessage("IN_SYNC"), FALSE)
    ELSE SyncCheckResult("OUT_OF_SYNC", currentPartName, decodedData,
                         getStatusMessage("OUT_OF_SYNC"), TRUE)

\* DataSyncChecker::checkSync(currentPartName, barcodeInstance), of which only
\* barcodeInstance.decodedData is read
checkSync(currentPartName, decodedData) ==
    IF decodedData = <<>>
    THEN SyncCheckResult("BARCODE_NOT_FOUND", currentPartName, decodedData,
                         getStatusMessage("BARCODE_NOT_FOUND"), FALSE)
    ELSE IF currentPartName = <<>>
    THEN SyncCheckResult("UNKNOWN", currentPartName, decodedData,
                         "Part name is empty", FALSE)
    ELSE IF decodedData = currentPartName
    THEN SyncCheckResult("IN_SYNC", currentPartName, decodedData,
                         getStatusMessage("IN_SYNC"), FALSE)
    ELSE SyncCheckResult("OUT_OF_SYNC", currentPartName, decodedData,
                         getStatusMessage("OUT_OF_SYNC"), TRUE)

\* An UpdateConfirmCallback: which function object it is and what it answers.
\* NoCallback is the empty std::function.
NoCallback == [id |-> "null", answer |-> FALSE]
Callbacks(id) == {[id |-> id, answer |-> a] : a \in BOOLEAN}

\* one invocation callback(oldData, newData)
Invocation(callback, oldData, newData) ==
    [callback |-> callback.id, oldData |-> oldData, newData |-> newData]

\* mutant: the installed default is preferred to the callback passed in the call
promptUpdate_DefaultFirst(result, confirmCallback, defaultCallback) ==
    IF result.status # "OUT_OF_SYNC"
    THEN [ret |-> FALSE, calls |-> <<>>]
    ELSE LET callback == IF defaultCallback # NoCallback THEN defaultCallback
                         ELSE confirmCallback
         IN  IF callback = NoCallback
             THEN [ret |-> FALSE, calls |-> <<>>]
             ELSE [ret   |-> callback.answer,
                   calls |-> <<Invocation(callback, result.barcodeData,
                                          result.currentPartName)>>]

\* DataSyncChecker::promptUpdate(result, confirmCallback): the value returned
\* and the callback invocations made
promptUpdate(result, confirmCallback, defaultCallback) ==
    IF result.status # "OUT_OF_SYNC"
    THEN [ret |-> FALSE, calls |-> <<>>]
    ELSE LET callback == IF confirmCallback # NoCallback THEN confirmCallback
                         ELSE defaultCallback
         IN  IF callback = NoCallback
             THEN [ret |-> FALSE, calls |-> <<>>]
             ELSE [ret   |-> callback.answer,
                   calls |-> <<Invocation(callback, result.barcodeData,
                                          result.currentPartName)>>]

\* part names and barcode texts: "", "A", "a", "AA", "Aa", ...
SyncNames == SeqsUpTo({65, 97}, MaxNameLen)

NoSyncArgs == [currentPartName |-> <<>>, decodedData |-> <<>>]
NoSyncResult == SyncCheckResult("UNKNOWN", <<>>, <<>>, "", FALSE)

SyncIdle ==
    /\ defaultUpdateCallback_ = NoCallback
    /\ syncCall = "none"
    /\ syncArgs = NoSyncArgs
    /\ syncResult = NoSyncResult
    /\ promptRet = "none"
    /\ callbackLog = <<>>

\* DataSyncChecker(): both default callbacks are null
SyncInit == SyncIdle

\* checker.setUpdateConfirmCallback(callback)
SetUpdateConfirmCallback ==
    \E callback \in Callbacks("default") \cup {NoCallback} :
        /\ defaultUpdateCallback_' = callback
        /\ syncCall' = "set"
        /\ syncArgs' = NoSyncArgs
        /\ syncResult' = NoSyncResult
        /\ promptRet' = "none"
        /\ callbackLog' = <<>>
        /\ UNCHANGED notSync

\* syncResult = checker.checkSync(currentPartName, barcodeInstance)
CheckSync ==
    \E currentPartName \in SyncNames, decodedData \in SyncNames :
        /\ syncCall' = "checkSync"
        /\ syncArgs' = [currentPartName |-> currentPartName, decodedData |-> decodedData]
        /\ syncResult' = checkSync(currentPartName, decodedData)
        /\ promptRet' = "none"
        /\ callbackLog' = <<>>
        /\ UNCHANGED <<defaultUpdateCallback_, notSync>>

\* promptRet = checker.promptUpdate(result, confirmCallback), for any result
\* the caller built or got from checkSync
PromptUpdate ==
    \E status \in SyncStatus, currentPartName \in SyncNames, barcodeData \in SyncNames,
       confirmCallback \in Callbacks("passed") \cup {NoCallback} :
        LET result == SyncCheckResult(status, currentPartName, barcodeData,
                                      getStatusMessage(status), status = "OUT_OF_SYNC")
            out    == promptUpdate(result, confirmCallback, defaultUpdateCallback_)
        IN  /\ syncCall' = "promptUpdate"
            /\ syncArgs' = [result |-> result, confirmCallback |-> confirmCallback]
            /\ syncResult' = NoSyncResult
            /\ promptRet' = IF out.ret THEN "true" ELSE "false"
            /\ callbackLog' = out.calls
            /\ UNCHANGED <<defaultUpdateCallback_, notSync>>

-----------------------------------------------------------------------------
(* C API lifecycle: the global instances and the calls that need them *)

\* an empty std::unique_ptr; an instance is named by its construction number
NoInstance == 0

\* `if (!ptr) ptr.reset(new T())`: ptr afterwards, the objects constructed so
\* far, and whether new threw.  An existing instance is kept.
Construct(ptr, made, throws) ==
    IF ptr # NoInstance THEN [ptr |-> ptr, made |-> made, thrown |-> FALSE]
    ELSE IF throws THEN [ptr |-> NoInstance, made |-> made, thrown |-> TRUE]
    ELSE [ptr |-> made + 1, made |-> made + 1, thrown |-> FALSE]

Globals(gen, cfg, sync, lastError, made, ret) ==
    [g_generator |-> gen, g_configManager |-> cfg, g_syncChecker |-> sync,
     g_lastError |-> lastError, made |-> made, ret |-> ret]

\* mutant: barcode_init replaces the instances that exist
barcode_init_Recreates(gen, cfg, sync, lastError, made, throwAt) ==
    LET a == Construct(NoInstance, made, throwAt = "generator")
        b == IF a.thrown THEN [ptr |-> cfg, made |-> a.made, thrown |-> TRUE]
             ELSE Construct(NoInstance, a.made, throwAt = "configManager")
        c == IF b.thrown THEN [ptr |-> sync, made |-> b.made, thrown |-> TRUE]
             ELSE Construct(NoInstance, b.made, throwAt = "syncChecker")
    IN  IF c.thrown
        THEN Globals(a.ptr, b.ptr, c.ptr, "barcode_init failed", c.made, -1)
        ELSE Globals(a.ptr, b.ptr, c.ptr, "", c.made, 0)

\* barcode_init(): throwAt names the `new` that throws, if it is executed
barcode_init(gen, cfg, sync, lastError, made, throwAt) ==
    LET a == Construct(gen, made, throwAt = "generator")
        b == IF a.thrown THEN [ptr |-> cfg, made |-> a.made, thrown |-> TRUE]
             ELSE Construct(cfg, a.made, throwAt = "configManager")
        c == IF b.thrown THEN [ptr |-> sync, made |-> b.made, thrown |-> TRUE]
             ELSE Construct(sync, b.made, throwAt = "syncChecker")
    IN  IF c.thrown
        THEN Globals(a.ptr, b.ptr, c.ptr, "barcode_init failed", c.made, -1)
        ELSE Globals(a.ptr, b.ptr, c.ptr, "", c.made, 0)

\* barcode_cleanup()
barcode_cleanup(lastError, made) ==
    Globals(NoInstance, NoInstance, NoInstance, lastError, made, 0)

\* C strings handed to the API: a null pointer, "" or a text
CStrings == {NullPtr, "", "text"}

\* the parameter checks of barcode_generate (lines 77-90): the message of the
\* first that fails, "" when all pass
GenerateArgsError(args) ==
    IF args.data = NullPtr \/ args.configNull \/ args.outputPath = NullPtr
    THEN "Invalid parameters: null pointer"
    ELSE IF args.data = "" THEN "Invalid parameters: empty data string"
    ELSE IF args.outputPath = "" THEN "Invalid parameters: empty output path"
    ELSE ""

\* barcode_generate(data, config, outputPath); newThrows: new BarcodeGenerator
\* throws if executed; outcome: what g_generator->generate does
barcode_generate(args, gen, cfg, sync, lastError, made, newThrows, outcome) ==
    IF GenerateArgsError(args) # ""
    THEN Globals(gen, cfg, sync, GenerateArgsError(args), made, -1)
    ELSE LET a == Construct(gen, made, newThrows)
         IN  IF a.thrown
             THEN Globals(a.ptr, cfg, sync, "Failed to initialize generator", a.made, -1)
             ELSE IF outcome = "true"
             THEN Globals(a.ptr, cfg, sync, lastError, a.made, 0)
             ELSE IF outcome = "false"
             THEN Globals(a.ptr, cfg, sync, "generator message", a.made, -1)
             ELSE Globals(a.ptr, cfg, sync, "Exception in barcode_generate", a.made, -1)

\* barcode_decode(imagePath, outputBuffer, bufferSize); outcome: what
\* g_generator->decode does
barcode_decode(args, gen, cfg, sync, lastError, made, outcome) ==
    IF gen = NoInstance \/ args.imagePath = NullPtr \/ args.outNull \/ args.bufferSize <= 0
    THEN Globals(gen, cfg, sync, "Invalid parameters or module not initialized", made, -1)
    ELSE IF outcome = "true"
    THEN Globals(gen, cfg, sync, lastError, made, 0)
    ELSE IF outcome = "false"
    THEN Globals(gen, cfg, sync, "generator message", made, -1)
    ELSE Globals(gen, cfg, sync, "exception", made, -1)

\* barcode_get_image_size(imagePath, width, height); outcome: what
\* g_generator->getImageSize does
barcode_get_image_size(args, gen, cfg, sync, lastError, made, outcome) ==
    IF gen = NoInstance \/ args.imagePath = NullPtr \/ args.outNull
    THEN Globals(gen, cfg, sync, "Invalid parameters or module not initialized", made, -1)
    ELSE IF outcome = "true"
    THEN Globals(gen, cfg, sync, lastError, made, 0)
    ELSE IF outcome = "false"
    THEN Globals(gen, cfg, sync, "Failed to get image size", made, -1)
    ELSE Globals(gen, cfg, sync, "exception", made, -1)

ApiCall(op, valid, newThrows) == [op |-> op, valid |-> valid, newThrows |-> newThrows]

LifeIdle ==
    /\ g_generator = NoInstance
    /\ g_configManager = NoInstance
    /\ g_syncChecker = NoInstance
    /\ g_lastError = ""
    /\ constructed = 0
    /\ apiCall = ApiCall("none", FALSE, FALSE)
    /\ apiRet = 0
    /\ initOrGenerate = FALSE

\* the library has just been loaded: the three globals are null
LifeInit == LifeIdle

\* the globals after a call, and what it returned
Returned(out) ==
    /\ g_generator' = out.g_generator
    /\ g_configManager' = out.g_configManager
    /\ g_syncChecker' = out.g_syncChecker
    /\ g_lastError' = out.g_lastError
    /\ constructed' = out.made
    /\ apiRet' = out.ret
    /\ UNCHANGED notLife

\* how many objects a call constructs at most: one per null pointer
Missing(ptrs) == Cardinality({i \in 1..Len(ptrs) : ptrs[i] = NoInstance})

BarcodeInit ==
    /\ constructed + Missing(<<g_generator, g_configManager, g_syncChecker>>)
          <= MaxInstances
    /\ \E throwAt \in {"none", "generator", "configManager", "syncChecker"} :
          Returned(barcode_init(g_generator, g_configManager, g_syncChecker,
                                g_lastError, constructed, throwAt))
    /\ apiCall' = ApiCall("barcode_init", TRUE, FALSE)
    /\ initOrGenerate' = TRUE

BarcodeCleanup ==
    /\ Returned(barcode_cleanup(g_lastError, constructed))
    /\ apiCall' = ApiCall("barcode_cleanup", TRUE, FALSE)
    /\ initOrGenerate' = FALSE

BarcodeGenerate ==
    /\ constructed + Missing(<<g_generator>>) <= MaxInstances
    /\ \E data \in CStrings, configNull \in BOOLEAN, outputPath \in CStrings,
          newThrows \in BOOLEAN, outcome \in {"true", "false", "throws"} :
          LET args  == [data |-> data, configNull |-> configNull,
                        outputPath |-> outputPath]
              valid == GenerateArgsError(args) = ""
          IN  /\ Returned(barcode_generate(args, g_generator, g_configManager,
                                           g_syncChecker, g_lastError, constructed,
                                           newThrows, outcome))
              /\ apiCall' = ApiCall("barcode_generate", valid,
                                    valid /\ newThrows /\ g_generator = NoInstance)
              /\ initOrGenerate' = (initOrGenerate \/ valid)

BarcodeDecode ==
    /\ \E imagePath \in {NullPtr, "text"}, outNull \in BOOLEAN, bufferSize \in {0, 16},
          outcome \in {"true", "false", "throws"} :
          LET args == [imagePath |-> imagePath, outNull |-> outNull,
                       bufferSize |-> bufferSize]
          IN  /\ Returned(barcode_decode(args, g_generator, g_configManager,
                                         g_syncChecker, g_lastError, constructed,
                                         outcome))
              /\ apiCall' = ApiCall("barcode_decode",
                                    imagePath # NullPtr /\ ~outNull /\ bufferSize > 0,
                                    FALSE)
    /\ UNCHANGED initOrGenerate

BarcodeGetImageSize ==
    /\ \E imagePath \in {NullPtr, "text"}, outNull \in BOOLEAN,
          outcome \in {"true", "false", "throws"} :
          LET args == [imagePath |-> imagePath, outNull |-> outNull]
          IN  /\ Returned(barcode_get_image_size(args, g_generator, g_configManager,
                                                 g_syncChecker, g_lastError,
                                                 constructed, outcome))
              /\ apiCall' = ApiCall("barcode_get_image_size",
                                    imagePath # NullPtr /\ ~outNull, FALSE)
    /\ UNCHANGED initOrGenerate

-----------------------------------------------------------------------------
(* ConfigManager::deserialize *)

\* PluginConfig with its default member initializers
DefaultConfig ==
    [defaultType |-> "CODE_128", defaultWidth |-> 200, defaultHeight |-> 80,
     defaultShowText |-> TRUE, outputDirectory |-> "", defaultDpi |-> 300,
     recentFiles |-> <<>>]

\* the keys deserialize looks for, in the order it reads them
JsonKeys == <<"defaultBarcodeType", "defaultWidth", "defaultHeight", "defaultShowText",
              "defaultDpi", "outputDirectory", "recentFiles">>

\* What the text holds under a key: nothing ("absent"), a value of the type
\* get<T>() asks for ("ok"), or a value of another type, on which get<T>()
\* throws json::type_error ("wrong").  A well-typed defaultBarcodeType may also
\* be a name stringToBarcodeType does not know ("unknown").
JsonFieldKinds(key) ==
    IF key = "defaultBarcodeType" THEN {"absent", "ok", "unknown", "wrong"}
    ELSE {"absent", "ok", "wrong"}

\* the texts: unparsable ones, and objects with any mix of fields
JsonTexts ==
    {[parsable |-> FALSE, fields |-> [k \in 1..Len(JsonKeys) |-> "absent"]]}
      \cup {[parsable |-> TRUE, fields |-> f] :
               f \in {g \in [1..Len(JsonKeys) -> {"absent", "ok", "unknown", "wrong"}] :
                         \A k \in 1..Len(JsonKeys) : g[k] \in JsonFieldKinds(JsonKeys[k])}}

\* config_ after the statement for JsonKeys[k] when its value is well-typed;
\* the values are the ones the texts of the model carry
AssignField(config, k, kind) ==
    IF kind = "absent" \/ kind = "unknown" THEN config
    ELSE CASE k = 1 -> [config EXCEPT !.defaultType = "QR_CODE"]
           [] k = 2 -> [config EXCEPT !.defaultWidth = 500]
           [] k = 3 -> [config EXCEPT !.defaultHeight = 120]
           [] k = 4 -> [config EXCEPT !.defaultShowText = FALSE]
           [] k = 5 -> [config EXCEPT !.defaultDpi = 600]
           [] k = 6 -> [config EXCEPT !.outputDirectory = "out"]
           [] k = 7 -> [config EXCEPT !.recentFiles = <<"a.drw">>]

\* lines 27-37 from the k-th key on: the fields are assigned to config_ one
\* after the other until a get<T>() throws
RECURSIVE AssignFields(_, _, _)
AssignFields(config, fields, k) ==
    IF k > Len(fields) THEN [config |-> config, thrown |-> FALSE]
    ELSE IF fields[k] = "wrong" THEN [config |-> config, thrown |-> TRUE]
    ELSE AssignFields(AssignField(config, k, fields[k]), fields, k + 1)

\* ConfigManager::deserialize(jsonStr): [ret, config (config_ afterwards),
\* lastError (lastError_ afterwards)]
deserialize(text, config, lastError) ==
    IF ~text.parsable
    THEN [ret |-> "false", config |-> config,
          lastError |-> ErrorInfo("CONFIG_LOAD_FAILED", "parse error")]
    ELSE LET out == AssignFields(config, text.fields, 1)
         IN  IF out.thrown
             THEN [ret |-> "false", config |-> out.config,
                   lastError |-> ErrorInfo("CONFIG_LOAD_FAILED", "type error")]
             ELSE [ret |-> "true", config |-> out.config, lastError |-> lastError]

CfgIdle ==
    /\ config_ = DefaultConfig
    /\ cfgLastError_ = NoError
    /\ cfgPhase = "idle"
    /\ jsonStr = [parsable |-> FALSE, fields |-> <<>>]
    /\ configBefore = DefaultConfig
    /\ cfgRet = "none"

\* a freshly constructed ConfigManager and the text of the call made on it
CfgInit ==
    /\ config_ = DefaultConfig
    /\ cfgLastError_ = NoError
    /\ cfgPhase = "args"
    /\ jsonStr \in JsonTexts
    /\ configBefore = DefaultConfig
    /\ cfgRet = "none"

\* cfgRet = manager.deserialize(jsonStr)
Deserialize ==
    /\ cfgPhase = "args"
    /\ LET out == deserialize(jsonStr, config_, cfgLastError_)
       IN  /\ config_' = out.config
           /\ cfgLastError_' = out.lastError
           /\ cfgRet' = out.ret
    /\ configBefore' = config_
    /\ cfgPhase' = "returned"
    /\ UNCHANGED <<jsonStr, notCfg>>

-----------------------------------------------------------------------------
(* Specifications: one per component *)

InitCodec ==
    /\ CodecInit /\ GenIdle /\ PureCIdle /\ BatchIdle /\ GridIdle /\ ComIdle /\ CapiIdle
    /\ ValIdle /\ SumIdle /\ SyncIdle /\ LifeIdle /\ CfgIdle
NextCodec == EncodeSpecialChars \/ DecodeEncoded \/ DecodeRaw
SpecCodec == InitCodec /\ [][NextCodec]_vars

InitGen ==
    /\ CodecIdle /\ GenInit /\ PureCIdle /\ BatchIdle /\ GridIdle /\ ComIdle /\ CapiIdle
    /\ ValIdle /\ SumIdle /\ SyncIdle /\ LifeIdle /\ CfgIdle
NextGen ==
    \/ Generate \/ Decode \/ GetImageSize
    \/ CallValidateData \/ CallEncodeSpecialChars \/ CallDecodeSpecialChars
SpecGen == InitGen /\ [][NextGen]_vars

InitPureC ==
    /\ CodecIdle /\ GenIdle /\ PureCInit /\ BatchIdle /\ GridIdle /\ ComIdle /\ CapiIdle
    /\ ValIdle /\ SumIdle /\ SyncIdle /\ LifeIdle /\ CfgIdle
NextPureC == BarcodeGeneratePureC
SpecPureC == InitPureC /\ [][NextPureC]_vars

InitBatch ==
    /\ CodecIdle /\ GenIdle /\ PureCIdle /\ BatchInit /\ GridIdle /\ ComIdle /\ CapiIdle
    /\ ValIdle /\ SumIdle /\ SyncIdle /\ LifeIdle /\ CfgIdle
NextBatch == AddFile \/ AddFiles \/ Clear \/ Process
SpecBatch == InitBatch /\ [][NextBatch]_vars

InitGrid ==
    /\ CodecIdle /\ GenIdle /\ PureCIdle /\ BatchIdle /\ GridInit /\ ComIdle /\ CapiIdle
    /\ ValIdle /\ SumIdle /\ SyncIdle /\ LifeIdle /\ CfgIdle
NextGrid == CalculateGridPosition
SpecGrid == InitGrid /\ [][NextGrid]_vars

InitCom ==
    /\ CodecIdle /\ GenIdle /\ PureCIdle /\ BatchIdle /\ GridIdle /\ ComInit /\ CapiIdle
    /\ ValIdle /\ SumIdle /\ SyncIdle /\ LifeIdle /\ CfgIdle
NextCom == BatchInsertImages \/ BatchInsertImagesGrid
SpecCom == InitCom /\ [][NextCom]_vars

\* the C API over a bridge that is either initialized or not
InitCapi ==
    /\ CodecIdle /\ GenIdle /\ PureCIdle /\ BatchIdle /\ GridIdle /\ CapiInit
    /\ ValIdle /\ SumIdle /\ SyncIdle /\ LifeIdle /\ CfgIdle
    /\ m_initialized \in BOOLEAN
    /\ m_lastError = NoComError
    /\ hostImages = <<>>
    /\ comPhase = "idle"
    /\ comArgs = [paths |-> <<>>, width |-> 0, height |-> 0, columns |-> 0,
                  spacing |-> 0, startX |-> 0, startY |-> 0]
    /\ comOutcomes = <<>>
    /\ comResult = BatchInsertResult(0)
NextCapi == BarcodeBatchInsertImages \/ BarcodeBatchInsertImagesGrid
SpecCapi == InitCapi /\ [][NextCapi]_vars

InitValidate ==
    /\ CodecIdle /\ GenIdle /\ PureCIdle /\ BatchIdle /\ GridIdle /\ ComIdle /\ CapiIdle
    /\ ValInit /\ SumIdle /\ SyncIdle /\ LifeIdle /\ CfgIdle
NextValidate == ValidateData
SpecValidate == InitValidate /\ [][NextValidate]_vars

InitSummary ==
    /\ CodecIdle /\ GenIdle /\ PureCIdle /\ BatchIdle /\ GridIdle /\ ComIdle /\ CapiIdle
    /\ ValIdle /\ SumInit /\ SyncIdle /\ LifeIdle /\ CfgIdle
NextSummary == GetSummary
SpecSummary == InitSummary /\ [][NextSummary]_vars

InitSync ==
    /\ CodecIdle /\ GenIdle /\ PureCIdle /\ BatchIdle /\ GridIdle /\ ComIdle /\ CapiIdle
    /\ ValIdle /\ SumIdle /\ SyncInit /\ LifeIdle /\ CfgIdle
NextSync == SetUpdateConfirmCallback \/ CheckSync \/ PromptUpdate
SpecSync == InitSync /\ [][NextSync]_vars

InitLife ==
    /\ CodecIdle /\ GenIdle /\ PureCIdle /\ BatchIdle /\ GridIdle /\ ComIdle /\ CapiIdle
    /\ ValIdle /\ SumIdle /\ SyncIdle /\ LifeInit /\ CfgIdle
NextLife ==
    \/ BarcodeInit \/ BarcodeCleanup \/ BarcodeGenerate \/ BarcodeDecode
    \/ BarcodeGetImageSize
SpecLife == InitLife /\ [][NextLife]_vars

InitConfig ==
    /\ CodecIdle /\ GenIdle /\ PureCIdle /\ BatchIdle /\ GridIdle /\ ComIdle /\ CapiIdle
    /\ ValIdle /\ SumIdle /\ SyncIdle /\ LifeIdle /\ CfgInit
NextConfig == Deserialize
SpecConfig == InitConfig /\ [][NextConfig]_vars

-----------------------------------------------------------------------------
(* Claims *)

\* C1: decodeSpecialChars(encodeSpecialChars(x)) = x for every byte string x:
\* once the encoded text has been decoded, the result is the original input.
C1_RoundTrip ==
    codecPhase = "roundtrip" => decoded = codecInput

\* C1 witness: a round trip of an input holding a backslash, a control byte
\* and a byte above 126 has completed.
C1_Witness ==
    /\ codecPhase = "roundtrip"
    /\ \E i, j, k \in 1..Len(codecInput) :
          codecInput[i] = BACKSLASH /\ codecInput[j] < 32 /\ codecInput[k] > 126

IsPrintable(c) == c \in 32..126

\* C2: every byte of encodeSpecialChars(x) lies in [32,126], and an input of
\* printable ASCII without a backslash is returned unchanged.
C2_EncodedPrintable ==
    codecPhase \in {"encoded", "roundtrip"} =>
        /\ \A k \in 1..Len(encoded) : IsPrintable(encoded[k])
        /\ (\A k \in 1..Len(codecInput) :
                IsPrintable(codecInput[k]) /\ codecInput[k] # BACKSLASH)
           => encoded = codecInput

\* C2 witness: an input holding DEL and a printable byte has been encoded,
\* and the output is longer than the input.
C2_Witness ==
    /\ codecPhase = "encoded"
    /\ \E i, j \in 1..Len(codecInput) : codecInput[i] = 127 /\ codecInput[j] = 126
    /\ Len(encoded) > Len(codecInput)

\* a backslash at position i of s followed by 'x' and then not by two
\* hexadecimal digits
MalformedHexAt(s, i) ==
    /\ s[i] = BACKSLASH
    /\ i + 1 <= Len(s)
    /\ s[i + 1] = LOWER_X
    /\ ~(i + 3 <= Len(s) /\ IsHex(s[i + 2]) /\ IsHex(s[i + 3]))

\* C3: decodeSpecialChars preserves a malformed hex escape: whenever the
\* decoder stands on a backslash followed by 'x' and not by two hex digits,
\* it copies the backslash and resumes at the very next character.
C3_MalformedHexPreserved ==
    codecPhase = "decodedraw" =>
        \A k \in 1..Len(decodeLog) :
            MalformedHexAt(codecInput, decodeLog[k].pos) =>
                /\ decodeLog[k].emit = BACKSLASH
                /\ decodeLog[k].adv = 1

\* C4: a generate call that returns true has written an image of exactly
\* config.width x config.height pixels, each pixel being the nearest-neighbour
\* sample of the matrix the writer returned, whatever that matrix's size.
C4_ExactDimensions ==
    genRet = "true" =>
        LET w  == genArgs.width
            h  == genArgs.height
            mw == writerMatrix.width
            mh == writerMatrix.height
        IN  /\ outFile.exists
            /\ outFile.width = w
            /\ outFile.height = h
            /\ Len(outFile.pixels) = w * h
            /\ \A x \in 0..(w - 1), y \in 0..(h - 1) :
                  outFile.pixels[y * w + x + 1] =
                      IF MatrixGet((x * mw) \div w, (y * mh) \div h) THEN 0 ELSE 255

\* C4 witness: generate returned true although the writer's matrix was wider
\* and lower than the requested image.
C4_Witness ==
    /\ genRet = "true"
    /\ writerMatrix.width > genArgs.width
    /\ writerMatrix.height < genArgs.height

\* C5: whenever barcode_generate_pure_c returns 0, the BMP header carries the
\* width and the height the caller passed.
C5_PureCExactDimensions ==
    (pcPhase = "returned" /\ pcRet = 0) =>
        /\ bmp.exists
        /\ bmp.biWidth = pcArgs.width
        /\ bmp.biHeight = pcArgs.height

\* C6: process returns exactly one BatchResult per queued path, in queue
\* order; an item whose file cannot be opened does not stop any later item
\* (each item's success is its own file's state), and every failed result
\* carries a non-empty errorMessage.
C6_OneResultPerItem ==
    procCalled =>
        /\ Len(results) = Len(procQueue)
        /\ \A i \in 1..Len(procQueue) :
              /\ i <= Len(results)
              /\ results[i].filePath = procQueue[i]
              /\ results[i].success = procOpens[i]
              /\ ~results[i].success => results[i].errorMessage # ""

\* C6 witness: a three-item batch whose first item failed and whose later
\* items were still processed, one succeeding and one failing.
C6_Witness ==
    /\ procCalled
    /\ Len(procQueue) = 3
    /\ Len(results) = 3
    /\ ~results[1].success /\ results[2].success /\ ~results[3].success

\* C7: with a progress callback, process invokes it exactly once per queued
\* item with current = 1, 2, ..., N in order and total = N, for failing items
\* too; for an empty queue (and without a callback) it is never invoked.
C7_ProgressCallback ==
    procCalled =>
        /\ procCallback =>
              progressLog = [i \in 1..Len(procQueue) |->
                                [current |-> i, total |-> Len(procQueue)]]
        /\ (~procCallback \/ procQueue = <<>>) => progressLog = <<>>

\* C7 witness: the callback was supplied to a batch of three holding a
\* failing item, and was invoked three times.
C7_Witness ==
    /\ procCalled /\ procCallback
    /\ Len(procQueue) = 3
    /\ \E i \in 1..3 : ~procOpens[i]
    /\ Len(progressLog) = 3

\* the 1-based positions of the items of the last bridge batch that failed
RECURSIVE FailedIdx(_, _)
FailedIdx(images, k) ==
    IF k > Len(images) THEN <<>>
    ELSE (IF insertImage(images[k], m_initialized, NoComError, comOutcomes[k]).ok
          THEN <<>> ELSE <<k>>) \o FailedIdx(images, k + 1)

\* C8: every BatchInsertResult returned by batchInsertImages or
\* batchInsertImagesGrid has totalCount = number of input items,
\* successCount + failCount = totalCount, failedPaths and errorMessages of
\* size failCount; failedPaths are the failed input paths in input order and
\* errorMessages[k] is the error of the insertion of failedPaths[k].
C8_BatchInsertResultConsistent ==
    comPhase \in {"batchInsertImages", "batchInsertImagesGrid"} =>
        LET n      == Len(comArgs.paths)
            images == [k \in 1..n |->
                          ImageInfo(comArgs.paths[k], k, comArgs.width, comArgs.height)]
            failed == FailedIdx(images, 1)
        IN  /\ comResult.totalCount = n
            /\ n = 0 => comResult = BatchInsertResult(0)
            /\ comResult.successCount + comResult.failCount = comResult.totalCount
            /\ Len(comResult.failedPaths) = comResult.failCount
            /\ Len(comResult.errorMessages) = comResult.failCount
            /\ comResult.failCount = Len(failed)
            /\ \A k \in 1..Len(failed) :
                  /\ k <= Len(comResult.failedPaths)
                  /\ k <= Len(comResult.errorMessages)
                  /\ comResult.failedPaths[k] = comArgs.paths[failed[k]]
                  /\ comResult.errorMessages[k] =
                        insertImage(images[failed[k]], m_initialized, NoComError,
                                    comOutcomes[failed[k]]).lastError

\* C8 witness: a batch of three returned with one success between two
\* failures of different causes.
C8_Witness ==
    /\ comPhase = "batchInsertImagesGrid"
    /\ comResult.totalCount = 3
    /\ comResult.successCount = 1
    /\ comResult.failCount = 2
    /\ comResult.failedPaths = <<"a.png", "b.png">>
    /\ comResult.errorMessages[1] # comResult.errorMessages[2]

\* C9: every call of barcode_batch_insert_images[_grid] given a non-NULL
\* result leaves successCount + failCount = totalCount in it, and returns
\* result->successCount.
C9_CapiResultConsistent ==
    (/\ capiPhase \in {"barcode_batch_insert_images", "barcode_batch_insert_images_grid"}
     /\ ~capiArgs.resultNull) =>
        /\ capiResult.set
        /\ capiResult.successCount + capiResult.failCount = capiResult.totalCount
        /\ capiRet = capiResult.successCount

\* C10: for index >= 0 and any columns, calculateGridPosition returns
\* x = startX + (index mod c) * (width + spacing) and
\* y = startY - (index div c) * (height + spacing) with c = max(columns, 1);
\* (5, 3, 10, 0, 0, 50, 50) yields (120, -60).
C10_GridFormula ==
    (gridPhase = "returned" /\ gridArgs.index >= 0) =>
        LET c == IF gridArgs.columns > 1 THEN gridArgs.columns ELSE 1
        IN  /\ gridPos.x = gridArgs.startX
                            + (gridArgs.index % c) * (gridArgs.width + gridArgs.spacing)
            /\ gridPos.y = gridArgs.startY
                            - (gridArgs.index \div c) * (gridArgs.height + gridArgs.spacing)
            /\ gridArgs = [index |-> 5, columns |-> 3, spacing |-> 10, startX |-> 0,
                           startY |-> 0, width |-> 50, height |-> 50]
               => gridPos = [x |-> 120, y |-> -60]

\* C10 witness: the position of the spec's example (5, 3, 10, 0, 0, 50, 50)
\* has been returned.
C10_Witness ==
    /\ gridPhase = "returned"
    /\ gridArgs = [index |-> 5, columns |-> 3, spacing |-> 10, startX |-> 0,
                   startY |-> 0, width |-> 50, height |-> 50]

\* C11: grid special cases.  With columns = 1 every index i yields x = startX
\* and y = startY - i * (height + spacing); with more columns than the index
\* (a single row) index i yields y = startY and x = startX + i * (width +
\* spacing); index 0 yields (startX, startY) for every columns value.
C11_GridSpecialCases ==
    gridPhase = "returned" =>
        LET a == gridArgs
        IN  /\ a.columns = 1 =>
                  /\ gridPos.x = a.startX
                  /\ gridPos.y = a.startY - a.index * (a.height + a.spacing)
            /\ (a.index >= 0 /\ a.index < a.columns) =>
                  /\ gridPos.y = a.startY
                  /\ gridPos.x = a.startX + a.index * (a.width + a.spacing)
            /\ a.index = 0 => gridPos = [x |-> a.startX, y |-> a.startY]

\* C11 witness: the position of index 4 in a single-column grid has been
\* returned, four rows below a non-zero start.
C11_Witness ==
    /\ gridPhase = "returned"
    /\ gridArgs.columns = 1
    /\ gridArgs.index = 4
    /\ gridArgs.startX = 7
    /\ gridPos.y < gridArgs.startY

\* C12: generate checks its preconditions in a fixed order and reports the
\* first that fails: empty data gives INVALID_DATA even when the size is also
\* invalid; otherwise a width or height <= 0 gives INVALID_SIZE even when the
\* data is invalid for the type; otherwise data rejected by validateData gives
\* INVALID_DATA.  In each case generate returns false, the writer is not
\* invoked and no file is written.
C12_PreconditionOrder ==
    lastCall = "generate" =>
        LET a        == genArgs
            empty    == a.data = <<>>
            badSize  == a.width <= 0 \/ a.height <= 0
            badData  == ~validateData(a.data, a.type)
            rejected == /\ genRet = "false"
                        /\ writerMatrix = NoMatrix
                        /\ outFile = NoFile
        IN  /\ empty => rejected /\ lastError_.code = "INVALID_DATA"
            /\ (~empty /\ badSize) => rejected /\ lastError_.code = "INVALID_SIZE"
            /\ (~empty /\ ~badSize /\ badData) =>
                  rejected /\ lastError_.code = "INVALID_DATA"

\* C12 witness: generate has rejected a call whose size is invalid and whose
\* non-empty data is invalid for the type.
C12_Witness ==
    /\ lastCall = "generate"
    /\ genRet = "false"
    /\ genArgs.data # <<>>
    /\ genArgs.width <= 0
    /\ ~validateData(genArgs.data, genArgs.type)

\* C13: validateData returns false for the empty string with every
\* BarcodeType, and true for every non-empty string, whatever its bytes, when
\* the type is Code128, QRCode or DataMatrix.
C13_ValidateEmptyAndFree ==
    valPhase = "returned" =>
        /\ valArgs.data = <<>> => ~valRet
        /\ (valArgs.data # <<>> /\ valArgs.type \in {"CODE_128", "QR_CODE", "DATA_MATRIX"})
           => valRet

\* C13 witness: a DataMatrix payload holding NUL and a byte above 127 has
\* been accepted.
C13_Witness ==
    /\ valPhase = "returned"
    /\ valArgs.type = "DATA_MATRIX"
    /\ valArgs.data = <<0, 200>>
    /\ valRet

\* C14: validateData(data, Code39) returns true exactly when data is non-empty
\* and every character is A-Z, 0-9 or one of space - . $ / + %; a lower-case
\* letter or any other character at any position makes it false.
C14_ValidateCode39 ==
    (valPhase = "returned" /\ valArgs.type = "CODE_39") =>
        (valRet <=>
            /\ valArgs.data # <<>>
            /\ \A k \in 1..Len(valArgs.data) :
                  valArgs.data[k] \in (65..90) \cup (48..57)
                                       \cup {32, 45, 46, 36, 47, 43, 37})

\* C14 witness: a Code39 payload of an upper-case letter followed by a
\* lower-case letter has been rejected.
C14_Witness ==
    /\ valPhase = "returned"
    /\ valArgs.type = "CODE_39"
    /\ valArgs.data = <<65, 97>>
    /\ ~valRet

\* C15: validateData(data, EAN13) returns true exactly when data has length 12
\* or 13 and every character is an ASCII digit.
C15_ValidateEan13 ==
    (valPhase = "returned" /\ valArgs.type = "EAN_13") =>
        (valRet <=>
            /\ Len(valArgs.data) \in {12, 13}
            /\ \A k \in 1..Len(valArgs.data) : valArgs.data[k] \in 48..57)

\* C15 witness: an EAN13 payload of 14 digits has been rejected.
C15_Witness ==
    /\ valPhase = "returned"
    /\ valArgs.type = "EAN_13"
    /\ Len(valArgs.data) = 14
    /\ \A k \in 1..14 : valArgs.data[k] \in 48..57
    /\ ~valRet

\* the Code 128 subset B value of a byte: c - 32 for 32..127, 0 otherwise
SubsetBValue(c) == IF c \in 32..127 THEN c - 32 ELSE 0

RECURSIVE SumRange(_, _, _)
\* q[lo] + ... + q[hi]
SumRange(q, lo, hi) ==
    IF lo > hi THEN 0
    ELSE IF lo = hi THEN q[lo]
    ELSE LET mid == (lo + hi) \div 2
         IN  SumRange(q, lo, mid) + SumRange(q, mid + 1, hi)

\* sum of the first n elements of a sequence of numbers
SumSeq(q, n) == SumRange(q, 1, n)

\* sum over positions i = 1..n of SubsetBValue(data[i]) * i
PositionSum(data, n) == SumSeq([i \in 1..n |-> SubsetBValue(data[i]) * i], n)

\* C16: calculate_checksum(data, 104) = (104 + sum over i = 1..n of
\* v(data[i]) * i) mod 103 with v(c) = c - 32 for 32..127 and 0 for every
\* other byte; for data of at most 80 characters it lies in [0,102], a valid
\* index into the pattern table.
C16_Checksum ==
    pcDraw.drawn =>
        LET data == pcArgs.data
            n    == Len(data)
        IN  /\ 104 + PositionSum(data, n) <= 2147483647   \* the int sum does not overflow
            /\ pcDraw.checksum = (104 + PositionSum(data, n)) % 103
            /\ pcDraw.checksum \in 0..102
            /\ pcDraw.checksum + 1 \in DOMAIN CODE128_PATTERNS

\* C16 witness: the checksum of an 80-character payload has been computed,
\* the weighted sum being far above 103.
C16_Witness ==
    /\ pcDraw.drawn
    /\ Len(pcArgs.data) = 80
    /\ PositionSum(pcArgs.data, 80) > 100000

\* the bar widths (even 0-based positions) of a pattern
BarModules(pat) == SumSeq([k \in 1..Len(pat) |-> IF k % 2 = 1 THEN pat[k] ELSE 0], Len(pat))

C18_FailureSetsLastError ==
    /\ (lastCall = "generate" /\ genRet = "false") =>
          lastError_.code \in {"INVALID_DATA", "INVALID_SIZE", "BARCODE_GENERATION_FAILED"}
    /\ (lastCall = "decode" /\ ~decodeRet.has) =>
          lastError_.code \in {"FILE_NOT_FOUND", "DECODE_FAILED"}
    /\ (lastCall = "getImageSize" /\ sizeRet = "false") =>
          lastError_.code # "SUCCESS"

C20_SummaryCounts ==
    sumPhase = "returned" =>
        LET n      == Len(sumArgs)
            failed == SelectSeq(sumArgs, LAMBDA r : ~r.success)
            ok     == SelectSeq(sumArgs, LAMBDA r : r.success)
        IN  /\ Len(summary) >= 5
            /\ summary[3] = <<"Total files: ", n>>
            /\ summary[4] = <<"Successful: ", Len(ok)>>
            /\ summary[5] = <<"Failed: ", Len(failed)>>
            /\ summary[4][2] + summary[5][2] = summary[3][2]
            /\ n = 0 => summary[3][2] = 0 /\ summary[4][2] = 0 /\ summary[5][2] = 0
            /\ failed = <<>> => Len(summary) = 5
            /\ failed # <<>> =>
                  /\ Len(summary) = 7 + Len(failed)
                  /\ summary[7] = <<"Failure details:">>
                  /\ \A k \in 1..Len(failed) :
                        summary[7 + k] = <<"  - ", failed[k].filePath, ": ",
                                           failed[k].errorMessage>>

\* C20 witness: the summary of three results, a success between two failures
\* with different messages, has been returned with two detail lines.
C20_Witness ==
    /\ sumPhase = "returned"
    /\ Len(sumArgs) = 3
    /\ ~sumArgs[1].success /\ sumArgs[2].success /\ ~sumArgs[3].success
    /\ sumArgs[1].errorMessage # sumArgs[3].errorMessage
    /\ Len(summary) = 9

\* C22: promptUpdate invokes a confirmation callback only when result.status
\* is OUT_OF_SYNC, then exactly once with (result.barcodeData,
\* result.currentPartName), and returns its answer; the callback passed in the
\* call is preferred, the installed default is used only when the passed one
\* is empty; for any other status, or with neither callback, it returns false
\* and invokes nothing.
C22_PromptUpdate ==
    syncCall = "promptUpdate" =>
        LET result == syncArgs.result
            passed == syncArgs.confirmCallback
            chosen == IF passed # NoCallback THEN passed ELSE defaultUpdateCallback_
        IN  IF result.status = "OUT_OF_SYNC" /\ chosen # NoCallback
            THEN /\ callbackLog = <<[callback |-> chosen.id,
                                     oldData  |-> result.barcodeData,
                                     newData  |-> result.currentPartName]>>
                 /\ promptRet = (IF chosen.answer THEN "true" ELSE "false")
            ELSE /\ callbackLog = <<>>
                 /\ promptRet = "false"

\* C22 witness: an OUT_OF_SYNC result was prompted with a passed callback that
\* declines while the installed default would accept; the passed one was
\* invoked and its answer returned.
C22_Witness ==
    /\ syncCall = "promptUpdate"
    /\ syncArgs.result.status = "OUT_OF_SYNC"
    /\ syncArgs.result.barcodeData # syncArgs.result.currentPartName
    /\ syncArgs.confirmCallback = [id |-> "passed", answer |-> FALSE]
    /\ defaultUpdateCallback_ = [id |-> "default", answer |-> TRUE]
    /\ Len(callbackLog) = 1
    /\ callbackLog[1].callback = "passed"
    /\ promptRet = "false"

\* C23: checkSync returns BARCODE_NOT_FOUND when decodedData is empty (also
\* when the part name is empty too), otherwise UNKNOWN when the part name is
\* empty, otherwise IN_SYNC when the two strings are byte-equal and
\* OUT_OF_SYNC when they differ; warningDisplayed is true exactly when the
\* status is OUT_OF_SYNC, and the result echoes the part name and barcode data.
C23_CheckSync ==
    syncCall = "checkSync" =>
        LET partName == syncArgs.currentPartName
            data     == syncArgs.decodedData
        IN  /\ syncResult.status =
                  (IF Len(data) = 0 THEN "BARCODE_NOT_FOUND"
                   ELSE IF Len(partName) = 0 THEN "UNKNOWN"
                   ELSE IF Len(data) = Len(partName)
                           /\ \A i \in 1..Len(data) : data[i] = partName[i]
                        THEN "IN_SYNC"
                   ELSE "OUT_OF_SYNC")
            /\ syncResult.warningDisplayed <=> syncResult.status = "OUT_OF_SYNC"
            /\ syncResult.currentPartName = partName
            /\ syncResult.barcodeData = data

\* C23 witness: checkSync was called with both strings empty and answered
\* BARCODE_NOT_FOUND.
C23_Witness ==
    /\ syncCall = "checkSync"
    /\ syncArgs.currentPartName = <<>>
    /\ syncArgs.decodedData = <<>>
    /\ syncResult.status = "BARCODE_NOT_FOUND"

\* C24: after any sequence of addFile, addFiles and clear, getQueueSize equals
\* the number of paths added since the most recent clear (0 if none); every
\* add appends its paths in order, duplicates included, behind the entries
\* already queued; clear always leaves the size at 0.
C24_QueueTracksAdds ==
    /\ [](Len(fileQueue_) = addedSinceClear)
    /\ [][/\ batchCall'.op \in {"addFile", "addFiles"} =>
              /\ Len(fileQueue_') = Len(fileQueue_) + Len(batchCall'.paths)
              /\ \A i \in 1..Len(fileQueue_) :
                    i <= Len(fileQueue_') /\ fileQueue_'[i] = fileQueue_[i]
              /\ \A j \in 1..Len(batchCall'.paths) :
                    /\ Len(fileQueue_) + j <= Len(fileQueue_')
                    /\ fileQueue_'[Len(fileQueue_) + j] = batchCall'.paths[j]
          /\ batchCall'.op = "clear" => Len(fileQueue_') = 0]_vars

\* C24 witness: addFiles has queued two copies of a path that was already
\* queued, and the queue holds the same path three times.
C24_Witness ==
    /\ batchCall.op = "addFiles"
    /\ Len(batchCall.paths) = 2
    /\ addedSinceClear = 3
    /\ Len(fileQueue_) = 3
    /\ fileQueue_[1] = fileQueue_[2] /\ fileQueue_[2] = fileQueue_[3]

\* C26: process does not consume or alter the queue: the queue is the same
\* before and after process, and a second process call with no addFile,
\* addFiles or clear in between returns a result list of the same length with
\* the same filePath sequence.
C26_ProcessKeepsQueue ==
    [][batchCall'.op = "process" =>
          /\ fileQueue_' = fileQueue_
          /\ batchCall.op = "process" =>
                /\ Len(results') = Len(results)
                /\ \A i \in 1..Len(results) :
                      i <= Len(results') /\ results'[i].filePath = results[i].filePath]_vars

\* C26 witness: process has returned three results for a queue of three that
\* is still queued.
C26_Witness ==
    /\ batchCall.op = "process"
    /\ Len(results) = 3
    /\ Len(fileQueue_) = 3

\* C25: a successful generate or decode leaves the last-error record
\* untouched, so that after a failing call followed by successful calls
\* getLastError() still returns the record of that failure; the record has
\* code SUCCESS only if no generate or decode call on the instance has ever
\* failed; validateData, encodeSpecialChars and decodeSpecialChars never change
\* the record.
C25_SuccessKeepsLastError ==
    /\ [](lastError_.code = "SUCCESS" => ~everFailed)
    /\ [][/\ (lastCall' = "generate" /\ genRet' = "true") => lastError_' = lastError_
          /\ (lastCall' = "decode" /\ decodeRet'.has) => lastError_' = lastError_
          /\ lastCall' \in {"validateData", "encodeSpecialChars", "decodeSpecialChars"}
                => lastError_' = lastError_]_vars

\* C25 witness: generate has just succeeded on an instance whose record still
\* holds the DECODE_FAILED of an earlier decode.
C25_Witness ==
    /\ lastCall = "generate"
    /\ genRet = "true"
    /\ everFailed
    /\ lastError_.code = "DECODE_FAILED"

\* C27: barcode_generate_pure_c never stores a pixel outside its buffer: for
\* every width, height and margin (negative margins and non-positive sizes
\* included) and every accepted data string, each pixel store made while
\* drawing has a byte offset in [0, rowSize * height).
C27_StoresInBuffer ==
    pcDraw.drawn =>
        \A k \in 1..Len(pcDraw.runs) :
            \A o \in BarStores(pcDraw.runs[k], pcDraw) :
                0 <= o /\ o + 2 < pcDraw.rowSize * pcDraw.height

\* C28: with margin >= 0 the symbol exactly fills the area between the side
\* margins: moduleWidth = max(2, (width - 2 * margin) div totalModules), the
\* output width is moduleWidth * totalModules + 2 * margin, after STOP the
\* cursor is at outputWidth - margin, so no bar is cut by the clipping test
\* and no black pixel lies in the left or right margin columns or in the top
\* or bottom margin rows.
C28_SymbolFillsInnerArea ==
    (pcDraw.drawn /\ pcArgs.margin >= 0) =>
        LET margin  == pcArgs.margin
            total   == 11 + 11 * Len(pcArgs.data) + 11 + 13
            quot    == (pcArgs.width - 2 * margin) \div total
            bars    == [k \in 1..Len(pcDraw.symbols) |->
                           BarModules(CODE128_PATTERNS[pcDraw.symbols[k] + 1])]
            black   == [k \in 1..Len(pcDraw.runs) |->
                           pcDraw.runs[k].to - pcDraw.runs[k].from + 1]
        IN  /\ pcDraw.moduleWidth = (IF quot > 2 THEN quot ELSE 2)
            /\ pcDraw.width = pcDraw.moduleWidth * total + 2 * margin
            /\ pcDraw.endX = pcDraw.width - margin
            \* every bar has its full width
            /\ SumSeq(black, Len(black)) = pcDraw.moduleWidth * SumSeq(bars, Len(bars))
            \* black columns and rows keep clear of the margins
            /\ \A k \in 1..Len(pcDraw.runs) :
                  /\ margin <= pcDraw.runs[k].from
                  /\ pcDraw.runs[k].to < pcDraw.width - margin
            /\ pcDraw.barcodeTop = margin
            /\ pcDraw.barcodeBottom = pcDraw.height - margin
            /\ ~OutOfBuffer(pcDraw)

\* C28 witness: a payload has been drawn with a margin of 10 and a module
\* width above the minimum, and its last bar ends at the right margin.
C28_Witness ==
    /\ pcDraw.drawn
    /\ pcRet = 0
    /\ pcArgs.margin = 10
    /\ pcDraw.moduleWidth > 2
    /\ pcDraw.runs[Len(pcDraw.runs)].to = pcDraw.width - 10 - 1

\* C29: barcode_decode and barcode_get_image_size return -1 whenever no
\* generator exists, whereas barcode_generate creates the generator on demand
\* once its argument checks pass; hence barcode_decode can return 0 only if
\* barcode_init or an argument-valid barcode_generate has been called since
\* the last barcode_cleanup.  barcode_init is idempotent and keeps the
\* component instances that already exist.
C29_Lifecycle ==
    /\ []((apiCall.op = "barcode_decode" /\ apiRet = 0) => initOrGenerate)
    /\ [][/\ (apiCall'.op \in {"barcode_decode", "barcode_get_image_size"}
                /\ g_generator = NoInstance) => apiRet' = -1
          /\ (apiCall'.op = "barcode_generate" /\ apiCall'.valid /\ ~apiCall'.newThrows)
                => /\ g_generator' # NoInstance
                   /\ g_generator # NoInstance => g_generator' = g_generator
          /\ apiCall'.op = "barcode_init" =>
                /\ g_generator # NoInstance => g_generator' = g_generator
                /\ g_configManager # NoInstance => g_configManager' = g_configManager
                /\ g_syncChecker # NoInstance => g_syncChecker' = g_syncChecker
                /\ apiRet' = 0 => /\ g_generator' # NoInstance
                                  /\ g_configManager' # NoInstance
                                  /\ g_syncChecker' # NoInstance
          /\ (apiCall'.op = "barcode_init" /\ apiCall.op = "barcode_init" /\ apiRet = 0)
                => /\ apiRet' = 0
                   /\ UNCHANGED <<g_generator, g_configManager, g_syncChecker,
                                  g_lastError, constructed>>]_vars

\* C29 witness: after a cleanup, an argument-valid barcode_generate created
\* the generator on demand and a later barcode_decode returned 0, with no
\* config manager around (barcode_init was not called since the cleanup).
C29_Witness ==
    /\ apiCall.op = "barcode_decode"
    /\ apiRet = 0
    /\ initOrGenerate
    /\ constructed > 3
    /\ g_generator = constructed
    /\ g_configManager = NoInstance

\* C30: a deserialize call that returns false leaves the stored configuration
\* exactly as it was before the call: no field of getConfig() changes when
\* the text is unparsable or holds a field of the wrong type, even if other
\* fields of the same text were valid.
C30_FailedDeserializeKeepsConfig ==
    (cfgPhase = "returned" /\ cfgRet = "false") => config_ = configBefore

=============================================================================
